---- MODULE Spec2Model ----
(***************************************************************************)
(* A model of the query / relationship engine of the Eloquent-style data   *)
(* layer (src/src/eloquent/EloquentBuilder.ts): the query builder and its  *)
(* two compilers, the entity's attribute store with its accessors,         *)
(* pagination and has-conditions, the eager loader, the serializer, the    *)
(* identifier coercion of the document store, and the pivot methods of     *)
(* src/src/eloquent/relationships.ts.  Each part has its own specification *)
(* over its own variables; the variables of the other parts stay idle.     *)
(***************************************************************************)
EXTENDS Integers, Sequences, FiniteSets, TLC

VARIABLES
    \* ---- query builder (EloquentBuilder) and the table it reads
    dbType,                  \* getDbType(): "mysql" or "mongodb"
    rows,                    \* the table/collection: id -> [a, b, deleted_at]
    whereClauses,            \* EloquentBuilder.whereClauses
    includeTrashed,          \* EloquentBuilder.includeTrashed
    onlyTrashedFlag,         \* EloquentBuilder.onlyTrashedFlag
    appliedSoftDeleteFilter, \* EloquentBuilder.appliedSoftDeleteFilter
    lastTerminal,            \* the terminal call that ran last, "none" before
    result,                  \* ids of the rows that terminal call selected
    \* ---- one entity (Model) and the statements its save() issues
    attributes,              \* Model.attributes: field -> value
    original,                \* Model.original, the dirty-tracking snapshot
    existsFlag,              \* Model.__exists
    clock,                   \* the time new Date() reads
    nextId,                  \* the id the store gives the next inserted row
    lastCall,                \* the entity method that ran last, with its inputs
    lastWrite,               \* the statement that call sent to the store
    attributeCache,          \* Model.__attributeCache: field -> memoized read value
    readCall,                \* the read made since the last write, and what it returned
    \* ---- pagination over a table of parents, some with a related row
    parents,                 \* the table in store order: [hasRel]
    hasConditions,           \* EloquentBuilder.hasConditions: <<[relation, operator, count]>>
    limitValue,              \* EloquentBuilder.limitValue (0: not set)
    offsetValue,             \* EloquentBuilder.offsetValue
    pageCall,                \* the arguments of the last paginate call
    page,                    \* the QueryResult it returned
    hasCall,                 \* the last get() or aggregate on the builder and its rows
    \* ---- eager loading: roots, their "a" children, each child's "b" owner
    nRoots,                  \* the root table holds ids 1..nRoots
    aRows,                   \* the table "a" reads: [owner, flag, b]
    kindA,                   \* the kind of relation "a": "hasMany" or "hasOne"
    relationTree,            \* EloquentBuilder.relationTree, as its set of paths
    withRelations,           \* EloquentBuilder.withRelations: name -> options
    relationPathOptions,     \* EloquentBuilder.relationPathOptions: path -> options
    fetched,                 \* get() has run on this builder
    loadLog,                 \* the statements get() sent to the store, in order
    loadedA,                 \* relationshipsLoaded.a of each root: ids of "a" rows
    loadedB,                 \* relationshipsLoaded.b of each loaded "a" row
    loadOutcome,             \* how get() ended: what it warned of, what it threw
    \* ---- the serializer: toJSON over a graph of loaded entities
    relationshipsLoaded,     \* of each entity, in insertion order: <<[rel, val]>>
    sPc,                     \* "idle", "run" (a toJSON call is in progress), "done"
    sStack,                  \* the toJSON calls still to be made, next one first
    visited,                 \* the visited set the calls share
    sOut,                    \* what each call made so far returned, in call order
    \* ---- a many-to-many relation (BelongsToMany) of one saved parent
    keysAs,                  \* how a SQL pivot column holds keys: "num" or "str"
    pivot,                   \* the related keys of the parent's pivot rows
    pivotCall,               \* the pivot method that ran last: input, store before, return
    \* ---- eager loading of a relation tree with several branches
    treeWith,                \* the with() calls made on the builder: <<[path, options]>>
    related,                 \* the paths along which the store holds entities
    treeFetched,             \* get() has run on this builder
    treeLog,                 \* the paths of the loadRelationship calls get() made, in order
    \* ---- whereHas with has-conditions nested in its constraint callback
    chains,                  \* of each parent, how deep the chain of its descendants goes
    nestedHas,               \* the has-condition of the builder and of each callback in it
    nestedCall,              \* the last get() on that builder and the parents it returned
    \* ---- a collection of documents with the id-like field user_id
    idDocs,                  \* the documents save() inserted: what was set, what is stored
    idCall,                  \* the last where('user_id', v).get() and the documents it found
    \* ---- an asynchronous accessor evaluation of the entity, suspended at its await
    pending                  \* the evaluation in flight: its key and the value it was given

queryVars == <<dbType, rows, whereClauses, includeTrashed, onlyTrashedFlag,
               appliedSoftDeleteFilter, lastTerminal, result>>

entityVars == <<attributes, original, existsFlag, clock, nextId, lastCall, lastWrite,
                attributeCache, readCall>>

pageVars == <<parents, hasConditions, limitValue, offsetValue, pageCall, page, hasCall>>

eagerVars == <<nRoots, aRows, kindA, relationTree, withRelations, relationPathOptions,
               fetched, loadLog, loadedA, loadedB, loadOutcome>>

serialVars == <<relationshipsLoaded, sPc, sStack, visited, sOut>>

pivotVars == <<keysAs, pivot, pivotCall>>

treeVars == <<treeWith, related, treeFetched, treeLog>>

nestVars == <<chains, nestedHas, nestedCall>>

idVars == <<idDocs, idCall>>

asyncVars == <<pending>>

vars == <<queryVars, entityVars, pageVars, eagerVars, serialVars, pivotVars, treeVars,
          nestVars, idVars, asyncVars>>

\* what the actions of one part leave alone
QueryFrame == UNCHANGED <<entityVars, pageVars, eagerVars, serialVars, pivotVars, treeVars, nestVars, idVars, asyncVars>>
EntityFrame == UNCHANGED <<queryVars, pageVars, eagerVars, serialVars, pivotVars, treeVars, nestVars, idVars, asyncVars>>
PageFrame == UNCHANGED <<queryVars, entityVars, eagerVars, serialVars, pivotVars, treeVars, nestVars, idVars, asyncVars>>
EagerFrame == UNCHANGED <<queryVars, entityVars, pageVars, serialVars, pivotVars, treeVars, nestVars, idVars, asyncVars>>
SerialFrame == UNCHANGED <<queryVars, entityVars, pageVars, eagerVars, pivotVars, treeVars, nestVars, idVars, asyncVars>>
\* the pivot methods read getDbType() and leave the builder alone
PivotFrame == UNCHANGED <<queryVars, entityVars, pageVars, eagerVars, serialVars, treeVars, nestVars, idVars, asyncVars>>
TreeFrame ==
    UNCHANGED <<queryVars, entityVars, pageVars, eagerVars, serialVars, pivotVars, nestVars,
                idVars, asyncVars>>
NestFrame ==
    UNCHANGED <<queryVars, entityVars, pageVars, eagerVars, serialVars, pivotVars, treeVars,
                idVars, asyncVars>>
IdFrame ==
    UNCHANGED <<queryVars, entityVars, pageVars, eagerVars, serialVars, pivotVars, treeVars,
                nestVars, asyncVars>>
\* what a step of an accessor evaluation leaves alone
AsyncFrame ==
    UNCHANGED <<queryVars, pageVars, eagerVars, serialVars, pivotVars, treeVars,
                nestVars, idVars>>

-----------------------------------------------------------------------------
(* Values.  A column holds a small positive number or SQL NULL.            *)

NULL == 0

MaxClauses == 2     \* clauses a caller appends to one builder

\* The fixture table.  Rows 1 and 2 differ in nothing a clause on a or b can
\* tell apart; row 3 was soft-deleted before the builder was made.
Fixture ==
    <<[a |-> 1, b |-> 1, deleted_at |-> NULL],
      [a |-> 1, b |-> 1, deleted_at |-> NULL],
      [a |-> 2, b |-> NULL, deleted_at |-> 1],
      [a |-> 2, b |-> 2, deleted_at |-> NULL]>>

RowIds == DOMAIN Fixture

\* what the callers of this model pass to the predicate methods
WhereArgs == {<<"a", 1>>, <<"a", 2>>, <<"b", 1>>}
OrWhereArgs == {<<"a", 2>>, <<"b", 1>>}
InArgs == {<<"a", <<1, 2>>>>}
NotInArgs == {<<"b", <<2>>>>}
BetweenArgs == {<<"b", <<1, 2>>>>}
NotBetweenArgs == {<<"a", <<2, 2>>>>}
NullArgs == {"b"}
Deletable == {2}

Field(row, col) ==
    IF col = "a" THEN row.a ELSE IF col = "b" THEN row.b ELSE row.deleted_at

-----------------------------------------------------------------------------
(* Clause model (types.ts WhereClause).  value is tagged with its JS shape. *)

NullV == [t |-> "null"]
NumV(n) == [t |-> "num", n |-> n]
ArrV(xs) == [t |-> "arr", xs |-> xs]
ClausesV(cs) == [t |-> "clauses", cs |-> cs]

Clause(col, op, val, bool) ==
    [column |-> col, operator |-> op, value |-> val, boolean |-> bool]

\* the predicate buildWhereClause / buildMongoFilter inject
DeletedAtIsNull == Clause("deleted_at", "=", NullV, "and")

HasDeletedAtColumn(cs) == \E i \in DOMAIN cs : cs[i].column = "deleted_at"

IsArr(w) == w.value.t = "arr"
IsNull(w) == w.value.t = "null"

-----------------------------------------------------------------------------
(* SQL compiler.  A compiled WHERE is the sequence of its parts in text     *)
(* order: the connective written before the part ("" for the first), the   *)
(* predicate and its positional parameters.  Column qualification only     *)
(* prefixes the table name and is left out.                                *)

Part(boolOp, kind, col, op, params, sub) ==
    [boolOp |-> boolOp, kind |-> kind, col |-> col, op |-> op,
     params |-> params, sub |-> sub]

BoolOp(w, idx) ==
    IF idx = 1 THEN "" ELSE IF w.boolean = "or" THEN "OR" ELSE "AND"

\* the null branch shared by buildWhereClause and buildNestedWhere
NullKind(op) ==
    IF op = "=" THEN "IS NULL"
    ELSE IF op \in {"!=", "<>"} THEN "IS NOT NULL"
    ELSE "CMP NULL"

\* buildNestedWhere: only IN, null tests and "col OP ?" are known here
BuildNestedWhere(clauses) ==
    [idx \in DOMAIN clauses |->
        LET w == clauses[idx] IN
        IF IsArr(w) /\ w.operator = "IN"
          THEN Part(BoolOp(w, idx), "IN", w.column, "IN", w.value.xs, <<>>)
        ELSE IF IsNull(w)
          THEN Part(BoolOp(w, idx), NullKind(w.operator), w.column, w.operator, <<>>, <<>>)
        ELSE Part(BoolOp(w, idx), "CMP", w.column, w.operator, <<w.value>>, <<>>)]

\* buildWhereClause, after the injection: one part per clause
WherePart(w, idx) ==
    IF w.operator = "nested" /\ w.value.t = "clauses"
      THEN Part(BoolOp(w, idx), "GROUP", "", "", <<>>, BuildNestedWhere(w.value.cs))
    ELSE IF IsArr(w) /\ w.operator \in {"IN", "NOT IN"}
      THEN Part(BoolOp(w, idx), w.operator, w.column, w.operator, w.value.xs, <<>>)
    ELSE IF IsArr(w) /\ w.operator \in {"BETWEEN", "NOT BETWEEN"}
      THEN Part(BoolOp(w, idx), w.operator, w.column, w.operator,
                <<w.value.xs[1], w.value.xs[2]>>, <<>>)
    ELSE IF IsNull(w)
      THEN Part(BoolOp(w, idx), NullKind(w.operator), w.column, w.operator, <<>>, <<>>)
    ELSE Part(BoolOp(w, idx), "CMP", w.column, w.operator, <<w.value>>, <<>>)

BuildWhereSql(clauses) == [idx \in DOMAIN clauses |-> WherePart(clauses[idx], idx)]

\* A "col OP ?" part is a statement the engine can run only when OP is a
\* comparison and the parameter a scalar; anything else is rejected.
PartWellFormed(p) ==
    /\ p.kind # "CMP NULL"
    /\ p.kind = "CMP" => p.op \in {"=", "!=", "<>"} /\ p.params[1].t = "num"
    /\ p.kind = "GROUP" =>
         \A i \in DOMAIN p.sub :
            /\ p.sub[i].kind \notin {"GROUP", "CMP NULL"}
            /\ p.sub[i].kind = "CMP" =>
                 p.sub[i].op \in {"=", "!=", "<>"} /\ p.sub[i].params[1].t = "num"

SqlWellFormed(parts) == \A i \in DOMAIN parts : PartWellFormed(parts[i])

\* One predicate on one row.  A comparison with NULL is UNKNOWN, which under
\* AND / OR alone selects like FALSE.
SqlAtom(p, row) ==
    LET v == Field(row, p.col) IN
    CASE p.kind = "IN" -> v # NULL /\ \E i \in DOMAIN p.params : p.params[i] = v
      [] p.kind = "NOT IN" -> v # NULL /\ \A i \in DOMAIN p.params : p.params[i] # v
      [] p.kind = "BETWEEN" -> v # NULL /\ p.params[1] <= v /\ v <= p.params[2]
      [] p.kind = "NOT BETWEEN" -> v # NULL /\ (v < p.params[1] \/ v > p.params[2])
      [] p.kind = "IS NULL" -> v = NULL
      [] p.kind = "IS NOT NULL" -> v # NULL
      [] p.kind = "CMP" /\ p.op = "=" -> v # NULL /\ v = p.params[1].n
      [] p.kind = "CMP" /\ p.op # "=" -> v # NULL /\ v # p.params[1].n
      [] OTHER -> FALSE

\* SQL precedence: AND binds tighter than OR, so the text is a disjunction of
\* the runs of parts between two ORs.
RunStarts(parts) == {i \in DOMAIN parts : i = 1 \/ parts[i].boolOp = "OR"}

RunOf(parts, s) ==
    {j \in DOMAIN parts : j >= s /\ \A k \in (s + 1)..j : parts[k].boolOp # "OR"}

SqlEvalFlat(parts, row) ==
    \E s \in RunStarts(parts) : \A j \in RunOf(parts, s) : SqlAtom(parts[j], row)

SqlEval(parts, row) ==
    \E s \in RunStarts(parts) :
        \A j \in RunOf(parts, s) :
            IF parts[j].kind = "GROUP"
              THEN SqlEvalFlat(parts[j].sub, row)
              ELSE SqlAtom(parts[j], row)

\* the rows a statement with this WHERE selects ("" when there is no clause)
SqlSelect(clauses, table) ==
    IF clauses = <<>> THEN DOMAIN table
    ELSE {id \in DOMAIN table : SqlEval(BuildWhereSql(clauses), table[id])}

-----------------------------------------------------------------------------
(* Document compiler.  A filter is a tree: $and / $or nodes over leaves.    *)
(* Identifier coercion concerns id-like columns only; the fixture columns  *)
(* a, b and deleted_at are not id-like.                                    *)

Leaf(op, col, arg) == [node |-> "leaf", op |-> op, col |-> col, arg |-> arg, args |-> <<>>]
Node(kind, args) == [node |-> kind, op |-> "", col |-> "", arg |-> <<>>, args |-> args]
EmptyFilter == Node("empty", <<>>)

\* the injection of a builder made for a nested group: its flags are the
\* constructor's defaults, so only the model and the group's own columns count
InjectFresh(cs, soft) ==
    IF soft /\ ~HasDeletedAtColumn(cs) THEN Append(cs, DeletedAtIsNull) ELSE cs

\* buildMongoFilter runs on a builder that shares the group's clause array,
\* so what it injects stays in the parent's nested clause
InjectNested(clauses, soft) ==
    [i \in DOMAIN clauses |->
        IF clauses[i].operator = "nested" /\ clauses[i].value.t = "clauses"
          THEN [clauses[i] EXCEPT !.value = ClausesV(InjectFresh(clauses[i].value.cs, soft))]
          ELSE clauses[i]]

\* toFilter for a clause that is not a nested group
LeafFilter(w) ==
    IF IsArr(w) /\ w.operator \in {"IN", "NOT IN"}
      THEN Leaf(IF w.operator = "IN" THEN "$in" ELSE "$nin", w.column, w.value.xs)
    ELSE IF IsArr(w) /\ w.operator = "BETWEEN"
      THEN Leaf("$gte$lte", w.column, w.value.xs)
    ELSE IF IsArr(w) /\ w.operator = "NOT BETWEEN"
      THEN Leaf("$lt|$gt", w.column, w.value.xs)
    ELSE IF IsNull(w) /\ w.operator = "="
      THEN Leaf("$eq", w.column, <<NULL>>)
    ELSE IF IsNull(w) /\ w.operator \in {"!=", "<>"}
      THEN Leaf("$ne", w.column, <<NULL>>)
    ELSE IF w.operator \in {"!=", "<>"}
      THEN Leaf("$ne", w.column, <<w.value.n>>)
    ELSE Leaf("$eq", w.column, <<w.value.n>>)

\* the and / or split at the end of buildMongoFilter
Combine(andParts, orParts) ==
    IF orParts # <<>> /\ andParts # <<>>
      THEN Node("$and", <<Node("$and", andParts), Node("$or", orParts)>>)
    ELSE IF orParts # <<>> THEN Node("$or", orParts)
    ELSE IF andParts # <<>> THEN Node("$and", andParts)
    ELSE EmptyFilter

IsOr(w) == w.boolean = "or"
IsAnd(w) == w.boolean # "or"

\* the filter of a group's clauses (a group holds no further group here)
GroupFilter(cs) ==
    LET fs(Test(_)) == [i \in DOMAIN SelectSeq(cs, Test) |-> LeafFilter(SelectSeq(cs, Test)[i])]
    IN Combine(fs(IsAnd), fs(IsOr))

ToFilter(w) ==
    IF w.operator = "nested" /\ w.value.t = "clauses"
      THEN GroupFilter(w.value.cs)
      ELSE LeafFilter(w)

\* buildMongoFilter, after the injections
BuildMongoFilter(clauses) ==
    LET kept == SelectSeq(clauses, LAMBDA w : ToFilter(w) # EmptyFilter)
        fs(Test(_)) == [i \in DOMAIN SelectSeq(kept, Test) |-> ToFilter(SelectSeq(kept, Test)[i])]
    IN IF clauses = <<>> THEN EmptyFilter ELSE Combine(fs(IsAnd), fs(IsOr))

\* the document store's matching of one leaf: a null field matches only
\* {col: null}, $ne and $nin
MongoLeaf(f, doc) ==
    LET v == Field(doc, f.col) IN
    CASE f.op = "$eq" -> v = f.arg[1]
      [] f.op = "$ne" -> v # f.arg[1]
      [] f.op = "$in" -> \E i \in DOMAIN f.arg : f.arg[i] = v
      [] f.op = "$nin" -> \A i \in DOMAIN f.arg : f.arg[i] # v
      [] f.op = "$gte$lte" -> v # NULL /\ f.arg[1] <= v /\ v <= f.arg[2]
      [] f.op = "$lt|$gt" -> v # NULL /\ (v < f.arg[1] \/ v > f.arg[2])
      [] OTHER -> FALSE

RECURSIVE MongoEval(_, _)
MongoEval(f, doc) ==
    CASE f.node = "empty" -> TRUE
      [] f.node = "leaf" -> MongoLeaf(f, doc)
      [] f.node = "$and" -> \A i \in DOMAIN f.args : MongoEval(f.args[i], doc)
      [] f.node = "$or" -> \E i \in DOMAIN f.args : MongoEval(f.args[i], doc)

MongoSelect(clauses, table) ==
    {id \in DOMAIN table : MongoEval(BuildMongoFilter(clauses), table[id])}

-----------------------------------------------------------------------------
(* The query builder.                                                      *)

\* Model.softDeletes of the entity type the builder was made for
SoftDeletes == TRUE

Deleted(table) == {id \in DOMAIN table : table[id].deleted_at # NULL}

\* the guard and push that open buildWhereClause and buildMongoFilter
InjectSoftDelete(clauses, applied, soft, incl, only) ==
    IF ~applied /\ soft /\ ~incl /\ ~only /\ ~HasDeletedAtColumn(clauses)
      THEN Append(clauses, DeletedAtIsNull)
      ELSE clauses

InjectApplied(clauses, applied, soft, incl, only) ==
    applied \/ (soft /\ ~incl /\ ~only /\ ~HasDeletedAtColumn(clauses))

\* the clause list a terminal call leaves on the builder
CompiledClauses(db, clauses, applied, soft, incl, only) ==
    LET top == InjectSoftDelete(clauses, applied, soft, incl, only)
    IN IF db = "mongodb" THEN InjectNested(top, soft) ELSE top

\* executeQuery / executeQueryMongo without limit, offset, joins or has-conditions
ExecuteQuery(db, clauses, applied, soft, incl, only, table) ==
    LET cs == CompiledClauses(db, clauses, applied, soft, incl, only)
    IN IF db = "mongodb" THEN MongoSelect(cs, table) ELSE SqlSelect(cs, table)

\* the statement is one the SQL engine accepts (the document store takes any filter)
Accepted(db, clauses, applied, soft, incl, only) ==
    db = "mongodb" \/
        SqlWellFormed(BuildWhereSql(CompiledClauses(db, clauses, applied, soft, incl, only)))

UserClauses == Len(SelectSeq(whereClauses, LAMBDA w : w.column # "deleted_at"))

Stale == /\ lastTerminal' = "none"
         /\ result' = {}

Push(w) ==
    /\ UserClauses < MaxClauses
    /\ whereClauses' = Append(whereClauses, w)
    /\ Stale
    /\ QueryFrame
    /\ UNCHANGED <<dbType, rows, includeTrashed, onlyTrashedFlag, appliedSoftDeleteFilter>>

Where(col, v) == Push(Clause(col, "=", NumV(v), "and"))

OrWhere(col, v) == Push(Clause(col, "=", NumV(v), "or"))

WhereIn(col, xs) == Push(Clause(col, "IN", ArrV(xs), "and"))

WhereNotIn(col, xs) == Push(Clause(col, "NOT IN", ArrV(xs), "and"))

WhereBetween(col, range) == Push(Clause(col, "BETWEEN", ArrV(range), "and"))

WhereNotBetween(col, range) == Push(Clause(col, "NOT BETWEEN", ArrV(range), "and"))

WhereNull(col) == Push(Clause(col, "=", NullV, "and"))

WhereNotNull(col) == Push(Clause(col, "!=", NullV, "and"))

\* where(callback) / orWhere(callback): the callback's builder collected group
Groups == { <<Clause("a", "=", NumV(1), "and"), Clause("b", "=", NullV, "or")>>,
            <<Clause("b", "BETWEEN", ArrV(<<1, 2>>), "and")>> }

WhereNested(group) == Push(Clause("", "nested", ClausesV(group), "and"))

OrWhereNested(group) == Push(Clause("", "nested", ClausesV(group), "or"))

WithTrashed ==
    /\ includeTrashed' = TRUE
    /\ onlyTrashedFlag' = FALSE
    /\ Stale
    /\ QueryFrame
    /\ UNCHANGED <<dbType, rows, whereClauses, appliedSoftDeleteFilter>>

WithoutTrashed ==
    /\ includeTrashed' = FALSE
    /\ onlyTrashedFlag' = FALSE
    /\ Stale
    /\ QueryFrame
    /\ UNCHANGED <<dbType, rows, whereClauses, appliedSoftDeleteFilter>>

OnlyTrashed ==
    /\ whereClauses' =
         Append(SelectSeq(whereClauses, LAMBDA w : w.column # "deleted_at"),
                Clause("deleted_at", "!=", NullV, "and"))
    /\ includeTrashed' = TRUE
    /\ onlyTrashedFlag' = TRUE
    /\ Stale
    /\ QueryFrame
    /\ UNCHANGED <<dbType, rows, appliedSoftDeleteFilter>>

\* what each terminal read keeps of the rows the statement selects: get()
\* all, first() (limit(1).get(), the store returning rows in id order) the
\* first, count() the rows the aggregate statement counts
Pick(name, sel) ==
    IF name = "first" THEN {id \in sel : \A other \in sel : id <= other} ELSE sel

\* the part every terminal read shares: inject, compile, run
Terminal(name) ==
    /\ whereClauses' = CompiledClauses(dbType, whereClauses, appliedSoftDeleteFilter,
                                       SoftDeletes, includeTrashed, onlyTrashedFlag)
    /\ appliedSoftDeleteFilter' = InjectApplied(whereClauses, appliedSoftDeleteFilter,
                                       SoftDeletes, includeTrashed, onlyTrashedFlag)
    /\ IF Accepted(dbType, whereClauses, appliedSoftDeleteFilter,
                   SoftDeletes, includeTrashed, onlyTrashedFlag)
         THEN /\ lastTerminal' = name
              /\ result' = Pick(name, ExecuteQuery(dbType, whereClauses,
                                    appliedSoftDeleteFilter, SoftDeletes,
                                    includeTrashed, onlyTrashedFlag, rows))
         ELSE /\ lastTerminal' = "error"
              /\ result' = {}
    /\ QueryFrame
    /\ UNCHANGED <<dbType, rows, includeTrashed, onlyTrashedFlag>>

Get == Terminal("get")

First == Terminal("first")

Count == Terminal("count")

\* Model.delete() on a soft-deleting type: UPDATE ... SET deleted_at = now
SoftDelete(id) ==
    /\ rows[id].deleted_at = NULL
    /\ rows' = [rows EXCEPT ![id].deleted_at = 1]
    /\ Stale
    /\ QueryFrame
    /\ UNCHANGED <<dbType, whereClauses, includeTrashed, onlyTrashedFlag,
                   appliedSoftDeleteFilter>>

\* Model.query(): a new builder
NewQuery ==
    /\ lastTerminal # "none"
    /\ whereClauses' = <<>>
    /\ includeTrashed' = FALSE
    /\ onlyTrashedFlag' = FALSE
    /\ appliedSoftDeleteFilter' = FALSE
    /\ Stale
    /\ QueryFrame
    /\ UNCHANGED <<dbType, rows>>

-----------------------------------------------------------------------------
(* The entity: attribute store, dirty tracking, save().                    *)

MaxClock == 3       \* save() calls in one behaviour (each reads a later time)

UndefV == [t |-> "undefined"]
NaNV == [t |-> "nan"]
DateV(n) == [t |-> "date", n |-> n]
StrV(n) == [t |-> "str", n |-> n]

NoAttributes == [k \in {} |-> UndefV]

\* attrs[key], undefined for a key the object does not have
GetAttr(attrs, key) == IF key \in DOMAIN attrs THEN attrs[key] ELSE UndefV

PrimaryKey == "id"
AutoIncrement == TRUE
Timestamps == TRUE

\* the casts the User model declares
Casts == [active_status |-> "int", created_at |-> "datetime", updated_at |-> "datetime"]

\* parseInt(value, 10)
ParseInt(v) == IF v.t \in {"num", "str"} THEN NumV(v.n) ELSE NaNV

\* new Date(value): null reads as the epoch
NewDate(v) ==
    CASE v.t = "date" -> v
      [] v.t = "num" -> DateV(v.n)
      [] v.t = "null" -> DateV(0)
      [] OTHER -> NaNV

CastAttribute(key, v) ==
    IF key \notin DOMAIN Casts THEN v
    ELSE IF Casts[key] = "int" THEN ParseInt(v)
    ELSE NewDate(v)

\* String(value)
ToStr(v) == IF v.t = "num" THEN StrV(v.n) ELSE v

\* the attribute object after setAttribute(key, v)
SetAttr(attrs, key, v) ==
    [k \in DOMAIN attrs \cup {key} |->
        IF k = key THEN CastAttribute(key, v) ELSE attrs[k]]

\* the attribute object after setAttribute for every key of row
SetAll(attrs, row) ==
    [k \in DOMAIN attrs \cup DOMAIN row |->
        IF k \in DOMAIN row THEN CastAttribute(k, row[k]) ELSE attrs[k]]

\* x !== y
StrictNe(x, y) == x.t = "nan" \/ x # y

\* !value
Falsy(v) == v.t \in {"undefined", "null", "nan"} \/ (v.t = "num" /\ v.n = 0)

\* JSON.stringify(attrs): undefined members are left out, NaN is written null
JsonOf(attrs) ==
    [k \in {f \in DOMAIN attrs : attrs[f].t # "undefined"} |->
        IF attrs[k].t = "nan" THEN NullV ELSE attrs[k]]

IsDirtyKey(attrs, orig, key) == StrictNe(GetAttr(attrs, key), GetAttr(orig, key))

IsDirtyAny(attrs, orig) == JsonOf(attrs) # JsonOf(orig)

GetDirty(attrs, orig) == {k \in DOMAIN attrs : StrictNe(attrs[k], GetAttr(orig, k))}

\* rows as a query hands them to hydrate: a whole row, a row whose
\* active_status column is NULL, and a row read with select('name', 'active_status')
HydrateRows ==
    { [id |-> NumV(1), name |-> NumV(1), active_status |-> NumV(1),
       created_at |-> NumV(1), updated_at |-> NumV(1)],
      [id |-> NumV(1), name |-> NumV(1), active_status |-> NullV,
       created_at |-> NumV(1), updated_at |-> NumV(1)],
      [name |-> NumV(1), active_status |-> NumV(1)] }

\* attribute objects given to the constructor
NewRows == { NoAttributes, [name |-> NumV(2), active_status |-> NumV(2)] }

\* setAttribute calls
SetArgs == { <<"name", NumV(1)>>, <<"name", NumV(2)>>,
             <<"active_status", NumV(1)>>, <<"active_status", NumV(2)>> }

NoWrite == [kind |-> "none", cols |-> {}, key |-> UndefV]

\* ---- accessors, mutators and the memo of reads

\* the accessors and mutators of the entity type: an instance method
\* getXAttribute ("method"; "asyncMethod" when it is declared async), or a
\* function given to registerAccessor / registerAsyncAccessor
Accessors == [name |-> "method", bio |-> "asyncMethod", motto |-> "registeredAsync"]
Mutators == [password |-> "method"]

AccessorKind(key) == IF key \in DOMAIN Accessors THEN Accessors[key] ELSE "none"
IsAsyncAccessor(key) == AccessorKind(key) \in {"asyncMethod", "registeredAsync"}

\* what an accessor makes of the stored value, what a mutator makes of the
\* input, and a Promise not yet resolved
Acc(v) == [t |-> "acc", of |-> v]
Mut(v) == [t |-> "mut", of |-> v]
PromiseV == [t |-> "promise"]

NoCache == [k \in {} |-> UndefV]
NoRead == [op |-> "none"]

\* __attributeCache.delete(key), for every key of keys
Forget(cache, keys) == [k \in DOMAIN cache \ keys |-> cache[k]]

\* __attributeCache.set(key, value) unless the value is undefined
Remember(cache, key, value) ==
    IF value.t = "undefined" THEN cache
    ELSE [k \in DOMAIN cache \cup {key} |-> IF k = key THEN value ELSE cache[k]]

\* getAttribute(key): the memo if there is one; else the stored value
\* through a synchronous accessor. A registered async accessor is not
\* called; a method that returns a Promise makes the read return undefined
GetAttributeSync(attrs, cache, key) ==
    IF key \in DOMAIN cache
      THEN [returned |-> cache[key], cache |-> cache, evaluated |-> FALSE]
      ELSE LET raw == GetAttr(attrs, key)
               kind == AccessorKind(key)
               value == CASE kind = "registeredSync"  -> Acc(raw)
                          [] kind = "registeredAsync" -> raw
                          [] kind = "method"          -> Acc(raw)
                          [] kind = "asyncMethod"     -> PromiseV
                          [] OTHER                    -> raw
           IN IF value = PromiseV
                THEN [returned |-> UndefV, cache |-> cache, evaluated |-> TRUE]
                ELSE [returned |-> value, cache |-> Remember(cache, key, value),
                      evaluated |-> kind \in {"registeredSync", "method"}]

\* getAttributeAsync(key): the memo if there is one; else the stored value
\* through the accessor, awaited
GetAttributeAwait(attrs, cache, key) ==
    IF key \in DOMAIN cache
      THEN [returned |-> cache[key], cache |-> cache, evaluated |-> FALSE]
      ELSE LET raw == GetAttr(attrs, key)
               value == IF AccessorKind(key) = "none" THEN raw ELSE Acc(raw)
           IN [returned |-> value, cache |-> Remember(cache, key, value),
               evaluated |-> AccessorKind(key) # "none"]

\* attribute objects given to fill() and to the constructor
FillRows == { [name |-> NumV(1), password |-> NumV(1)], [motto |-> NumV(2)] }

\* rows of the entity's table, as find() and hydrate see them
StoredRows == { [id |-> NumV(1), name |-> NumV(n), motto |-> NumV(n)] : n \in 1..2 }

\* property assignments: entity.key = v
AssignArgs == { <<"name", NumV(2)>>, <<"password", NumV(2)>> }

ReadKeys == DOMAIN Accessors

\* new Model(attrs): fill, then the snapshot
Construct(attrs) ==
    /\ attributes' = SetAll(NoAttributes, attrs)
    /\ original' = attributes'
    /\ existsFlag' = FALSE
    /\ lastCall' = [op |-> "construct", input |-> attrs]
    /\ attributeCache' = NoCache
    /\ readCall' = NoRead
    /\ lastWrite' = NoWrite
    /\ EntityFrame
    /\ UNCHANGED <<clock, nextId>>

Hydrate(row) ==
    /\ attributes' = SetAll(attributes, row)
    /\ original' = attributes'
    /\ existsFlag' = TRUE
    /\ lastCall' = [op |-> "hydrate", input |-> row]
    /\ attributeCache' = NoCache
    /\ readCall' = NoRead
    /\ lastWrite' = NoWrite
    /\ EntityFrame
    /\ UNCHANGED <<clock, nextId>>

SetAttribute(key, v) ==
    /\ attributes' = SetAttr(attributes, key, v)
    /\ lastCall' = [op |-> "setAttribute", key |-> key, value |-> v,
                    prev |-> GetAttr(attributes, key)]
    /\ attributeCache' = Forget(attributeCache, {key})
    /\ readCall' = NoRead
    /\ lastWrite' = NoWrite
    /\ EntityFrame
    /\ UNCHANGED <<original, existsFlag, clock, nextId>>

\* the attributes after save() has stamped them
Stamped(attrs, now) ==
    IF ~Timestamps THEN attrs
    ELSE SetAttr(IF Falsy(GetAttr(attrs, "created_at"))
                   THEN SetAttr(attrs, "created_at", now) ELSE attrs,
                 "updated_at", now)

\* the memo after save(): getAttribute('created_at') memoizes what it reads,
\* every setAttribute forgets its key
SaveCache(cache, attrs, inserts) ==
    LET read == GetAttributeSync(attrs, cache, "created_at")
        stamped == IF ~Timestamps THEN cache
                   ELSE Forget(IF Falsy(read.returned)
                                 THEN Forget(read.cache, {"created_at"})
                                 ELSE read.cache,
                               {"updated_at"})
    IN IF inserts THEN Forget(stamped, {PrimaryKey}) ELSE stamped

DoInsert(attrs, exists, force) ==
    ~exists \/ force \/ (GetAttr(attrs, PrimaryKey).t = "undefined" /\ AutoIncrement)

Save(force) ==
    /\ clock < MaxClock
    /\ clock' = clock + 1
    /\ LET attrs == Stamped(attributes, DateV(clock + 1))
           id == GetAttr(attrs, PrimaryKey)
           dirty == GetDirty(attrs, original)
           setCols == dirty \ {PrimaryKey}
       IN /\ lastCall' = [op |-> "save", force |-> force, existed |-> existsFlag,
                          dirty |-> dirty]
          /\ IF DoInsert(attrs, existsFlag, force)
               THEN /\ existsFlag' = TRUE
                    /\ IF dbType = "mongodb"
                         THEN \* insertOne(doc): a given id becomes _id
                              /\ lastWrite' = [kind |-> "insert", cols |-> DOMAIN attrs,
                                               key |-> UndefV]
                              /\ attributes' =
                                   SetAttr(attrs, "id",
                                           ToStr(IF Falsy(id) THEN NumV(nextId) ELSE id))
                              /\ nextId' = IF Falsy(id) THEN nextId + 1 ELSE nextId
                         ELSE \* INSERT INTO ... : the store numbers the row
                              /\ lastWrite' =
                                   [kind |-> "insert",
                                    cols |-> {k \in DOMAIN attrs :
                                                /\ attrs[k].t # "undefined"
                                                /\ (k # PrimaryKey \/ ~AutoIncrement)},
                                    key |-> UndefV]
                              /\ attributes' = SetAttr(attrs, PrimaryKey, NumV(nextId))
                              /\ nextId' = nextId + 1
               ELSE /\ lastWrite' = IF setCols # {}
                                      THEN [kind |-> "update", cols |-> setCols, key |-> id]
                                      ELSE NoWrite
                    /\ attributes' = attrs
                    /\ UNCHANGED <<existsFlag, nextId>>
    /\ original' = attributes'
    /\ attributeCache' = SaveCache(attributeCache, attributes, DoInsert(attributes, existsFlag, force))
    /\ readCall' = NoRead
    /\ EntityFrame

\* fill(attributes): setAttribute for every key (the type guards none)
Fill(row) ==
    /\ attributes' = SetAll(attributes, row)
    /\ lastCall' = [op |-> "fill", input |-> row]
    /\ lastWrite' = NoWrite
    /\ attributeCache' = Forget(attributeCache, DOMAIN row)
    /\ readCall' = NoRead
    /\ EntityFrame
    /\ UNCHANGED <<original, existsFlag, clock, nextId>>

\* entity.key = v: the set trap of the Proxy, setAttributeWithMutator and,
\* when the key has no mutator, setAttribute
Assign(key, v) ==
    /\ attributes' = SetAttr(attributes, key,
                              IF key \in DOMAIN Mutators THEN Mut(v) ELSE v)
    /\ lastCall' = [op |-> "assign", key |-> key, value |-> v]
    /\ lastWrite' = NoWrite
    /\ attributeCache' = Forget(attributeCache, {key})
    /\ readCall' = NoRead
    /\ EntityFrame
    /\ UNCHANGED <<original, existsFlag, clock, nextId>>

\* refresh(): reads the primary key, finds the row again and takes over the
\* attributes of the entity find() built; found is that row, if any
Refresh(found) ==
    LET idRead == GetAttributeSync(attributes, attributeCache, PrimaryKey)
        id == idRead.returned
    IN /\ found # {} => (id.t \notin {"undefined", "null"} /\ \A row \in found : row.id = id)
       /\ Cardinality(found) <= 1
       /\ attributeCache' = idRead.cache
       /\ IF id.t \in {"undefined", "null"} \/ found = {}
            THEN /\ UNCHANGED <<attributes, original>>
                 /\ lastCall' = [op |-> "refresh", input |-> NoAttributes]
            ELSE /\ attributes' = SetAll(NoAttributes, CHOOSE row \in found : TRUE)
                 /\ original' = attributes'
                 /\ lastCall' = [op |-> "refresh", input |-> CHOOSE row \in found : TRUE]
       /\ lastWrite' = NoWrite
       /\ readCall' = NoRead
       /\ EntityFrame
       /\ UNCHANGED <<existsFlag, clock, nextId>>

\* BelongsToMany.getResults(): each related row becomes new Model(row)
GetResults(row) ==
    /\ attributes' = SetAll(NoAttributes, row)
    /\ original' = attributes'
    /\ existsFlag' = FALSE
    /\ lastCall' = [op |-> "getResults", input |-> row]
    /\ attributeCache' = NoCache
    /\ readCall' = NoRead
    /\ lastWrite' = NoWrite
    /\ EntityFrame
    /\ UNCHANGED <<clock, nextId>>

\* what a loader stored under the relation's name on the entity first() built
LoadedV == [t |-> "loaded"]

LoadRelations == {"posts"}

\* load(relations): the row is fetched again with the relations eager-loaded,
\* then hydrate({...fresh.attributes, ...fresh.relationshipsLoaded}); found
\* is the row first() returns, if any
Load(found, relations) ==
    LET id == GetAttr(attributes, PrimaryKey)
    IN /\ Cardinality(found) <= 1
       /\ \A row \in found : "id" \in DOMAIN row /\ row.id = id
       /\ IF found = {}
            THEN /\ UNCHANGED <<attributes, original, existsFlag, attributeCache>>
                 /\ lastCall' = [op |-> "load", input |-> NoAttributes, found |-> FALSE,
                                 before |-> [attributes |-> attributes, original |-> original]]
            ELSE LET fresh == SetAll(NoAttributes, CHOOSE row \in found : TRUE)
                     merged == [k \in DOMAIN fresh \cup relations |->
                                  IF k \in relations THEN LoadedV ELSE fresh[k]]
                 IN /\ attributes' = SetAll(attributes, merged)
                    /\ original' = attributes'
                    /\ existsFlag' = TRUE
                    /\ attributeCache' = NoCache
                    /\ lastCall' = [op |-> "load", input |-> merged, found |-> TRUE,
                                    before |-> [attributes |-> attributes,
                                                original |-> original]]
       /\ lastWrite' = NoWrite
       /\ readCall' = NoRead
       /\ EntityFrame
       /\ UNCHANGED <<clock, nextId>>

\* entity.getAttribute(key)
GetAttribute(key) ==
    LET read == GetAttributeSync(attributes, attributeCache, key)
    IN /\ attributeCache' = read.cache
       /\ readCall' = [op |-> "getAttribute", key |-> key, returned |-> read.returned,
                       evaluated |-> read.evaluated, cacheBefore |-> attributeCache]
       /\ EntityFrame
       /\ UNCHANGED <<attributes, original, existsFlag, clock, nextId, lastCall, lastWrite>>

\* await entity.getAttributeAsync(key)
GetAttributeAsync(key) ==
    LET read == GetAttributeAwait(attributes, attributeCache, key)
    IN /\ attributeCache' = read.cache
       /\ readCall' = [op |-> "getAttributeAsync", key |-> key, returned |-> read.returned,
                       evaluated |-> read.evaluated, cacheBefore |-> attributeCache]
       /\ EntityFrame
       /\ UNCHANGED <<attributes, original, existsFlag, clock, nextId, lastCall, lastWrite>>

\* ---- getAttributeAsync in two steps, up to its await and after it

NoPending == [state |-> "none"]

AsyncKeys == {key \in DOMAIN Accessors : IsAsyncAccessor(key)}

\* setAttribute calls on the fields with an asynchronous accessor
AsyncSetArgs == { <<"motto", NumV(1)>>, <<"motto", NumV(2)>> }

\* getAttributeAsync(key) up to the await: no memo, the stored value is read
\* and handed to the accessor, which suspends
BeginGetAttributeAsync(key) ==
    /\ pending.state # "running"
    /\ key \notin DOMAIN attributeCache
    /\ pending' = [state |-> "running", key |-> key, value |-> GetAttr(attributes, key)]
    /\ AsyncFrame
    /\ UNCHANGED entityVars

\* the accessor resolves: its result is memoized and returned
EndGetAttributeAsync ==
    /\ pending.state = "running"
    /\ pending' = [pending EXCEPT !.state = "done"]
    /\ attributeCache' = Remember(attributeCache, pending.key, Acc(pending.value))
    /\ readCall' = [op |-> "getAttributeAsync", key |-> pending.key,
                    returned |-> Acc(pending.value), evaluated |-> TRUE,
                    cacheBefore |-> attributeCache]
    /\ AsyncFrame
    /\ UNCHANGED <<attributes, original, existsFlag, clock, nextId, lastCall, lastWrite>>

-----------------------------------------------------------------------------
(* Pagination.                                                             *)

MaxParents == 3     \* rows of the paginated table

\* a JavaScript number given in halves (3 is 1.5), so that Math.floor acts
Half(h) == [t |-> "num", halves |-> h]

\* Number.isFinite(Number(x))
IsFinite(x) == x.t = "num"

\* Math.floor(Number(x))
Floor(x) == x.halves \div 2

Max(x, y) == IF x >= y THEN x ELSE y
Min(x, y) == IF x <= y THEN x ELSE y

\* Math.ceil(total / pp)
CeilDiv(total, pp) == (total + pp - 1) \div pp

\* perPage arguments: NaN, -1, 0, 1, 1.5, 2, 3, 101
PerPageInputs == {NaNV} \cup {Half(h) : h \in {-2, 0, 2, 3, 4, 6, 202}}

\* page arguments: NaN, 0, 1, 2, 2.5, 3
PageInputs == {NaNV} \cup {Half(h) : h \in {0, 2, 4, 5, 6}}

PerPageOf(perPage) == IF IsFinite(perPage) THEN Max(1, Floor(perPage)) ELSE 15

PageOf(pg) == IF IsFinite(pg) THEN Max(1, Floor(pg)) ELSE 1

MaxHas == 2         \* has-conditions on one builder

\* the relations the parent type declares (getRelationship finds these), and
\* the names callers pass to whereHas / whereDoesntHave
Relationships == {"rel"}
RelationNames == {"rel", "ghost"}

\* the switch on the operator of a has-condition
HasOk(operator, actual, expected) ==
    CASE operator = ">=" -> actual >= expected
      [] operator = "="  -> actual = expected
      [] OTHER           -> actual >= expected

\* the related rows the subquery / countDocuments of a parent counts
Actual(i) == IF parents[i].hasRel THEN 1 ELSE 0

\* buildHasConditionsSQL: a condition on a relation without descriptor adds
\* no clause
HasConditionsSQL(has, i) ==
    \A c \in DOMAIN has :
        has[c].relation \in Relationships => HasOk(has[c].operator, Actual(i), has[c].count)

\* applyHasConditionsMongo: a condition on a relation without descriptor
\* ends the loop with allOk = false
HasConditionsMongo(has, i) ==
    \A c \in DOMAIN has :
        /\ has[c].relation \in Relationships
        /\ HasOk(has[c].operator, Actual(i), has[c].count)

\* the positions of the rows the has-conditions keep
KeepsHas(db, has, ids) ==
    SelectSeq(ids, LAMBDA i : IF db = "mongodb" THEN HasConditionsMongo(has, i)
                                                ELSE HasConditionsSQL(has, i))

AllParents == [i \in 1..Len(parents) |-> i]

\* LIMIT limit OFFSET offset / cursor.skip(offset).limit(limit)
Window(ids, limit, offset) ==
    SubSeq(ids, offset + 1, Min(Len(ids), offset + limit))

\* executeQuery: SQL filters inside the statement, before LIMIT and OFFSET;
\* executeQueryMongo filters the documents the cursor returned
ExecutePage(db, has, limit, offset) ==
    IF db = "mongodb"
      THEN KeepsHas(db, has, Window(AllParents, limit, offset))
      ELSE Window(KeepsHas(db, has, AllParents), limit, offset)

\* getCount / countMongo
GetCount(db, has) == Len(KeepsHas(db, has, AllParents))

\* executeQuery / executeQueryMongo of a get(): LIMIT and OFFSET only when
\* limitValue is set (0: undefined)
ExecuteGet(db, has, limit, offset) ==
    IF limit = 0 THEN KeepsHas(db, has, AllParents)
    ELSE ExecutePage(db, has, limit, offset)

\* aggregate / aggregateMongo: the rows of the WHERE clause (this builder
\* has none), without the has-conditions and without LIMIT
AggregateRows(db, has) == AllParents

Aggregates == {"count", "exists", "sum", "avg", "min", "max"}

NoHasCall == [op |-> "none"]

NoPage == [called |-> FALSE, data |-> <<>>, currentPage |-> 0, perPage |-> 0,
           total |-> 0, lastPage |-> 0]

NoPageCall == [perPage |-> NaNV, page |-> NaNV]

StalePage == /\ page' = NoPage
             /\ pageCall' = NoPageCall
             /\ hasCall' = NoHasCall

\* a parent is stored, with or without a related row
CreateParent(hasRel) ==
    /\ Len(parents) < MaxParents
    /\ parents' = Append(parents, [hasRel |-> hasRel])
    /\ StalePage
    /\ PageFrame
    /\ UNCHANGED <<hasConditions, limitValue, offsetValue>>

\* whereHas(relation)
WhereHas(relation) ==
    /\ Len(hasConditions) < MaxHas
    /\ hasConditions' = Append(hasConditions,
                           [relation |-> relation, operator |-> ">=", count |-> 1])
    /\ StalePage
    /\ PageFrame
    /\ UNCHANGED <<parents, limitValue, offsetValue>>

\* whereDoesntHave(relation)
WhereDoesntHave(relation) ==
    /\ Len(hasConditions) < MaxHas
    /\ hasConditions' = Append(hasConditions,
                           [relation |-> relation, operator |-> "=", count |-> 0])
    /\ StalePage
    /\ PageFrame
    /\ UNCHANGED <<parents, limitValue, offsetValue>>

\* limit(limit)
Limit(limit) ==
    /\ limitValue' = limit
    /\ StalePage
    /\ PageFrame
    /\ UNCHANGED <<parents, hasConditions, offsetValue>>

\* get() on the builder
GetParents ==
    /\ hasCall' = [op |-> "get",
                   rows |-> ExecuteGet(dbType, hasConditions, limitValue, offsetValue)]
    /\ page' = NoPage
    /\ pageCall' = NoPageCall
    /\ PageFrame
    /\ UNCHANGED <<parents, hasConditions, limitValue, offsetValue>>

\* count(), exists(), sum(), avg(), min(), max(): one aggregate statement
Aggregate(fn) ==
    /\ hasCall' = [op |-> fn, rows |-> AggregateRows(dbType, hasConditions)]
    /\ page' = NoPage
    /\ pageCall' = NoPageCall
    /\ PageFrame
    /\ UNCHANGED <<parents, hasConditions, limitValue, offsetValue>>

Paginate(perPage, pg) ==
    LET pp == PerPageOf(perPage)
        cur == PageOf(pg)
        offset == (cur - 1) * pp
        total == GetCount(dbType, hasConditions)
    IN /\ limitValue' = pp
       /\ offsetValue' = offset
       /\ pageCall' = [perPage |-> perPage, page |-> pg]
       /\ hasCall' = NoHasCall
       /\ page' = [called |-> TRUE,
                   data |-> ExecutePage(dbType, hasConditions, pp, offset),
                   currentPage |-> cur,
                   perPage |-> pp,
                   total |-> total,
                   lastPage |-> Max(1, CeilDiv(total, pp))]
       /\ PageFrame
       /\ UNCHANGED <<parents, hasConditions>>

-----------------------------------------------------------------------------
(* Eager loading: get() with with(...).  A root has the relation "a" to    *)
(* the rows whose owner it is; an "a" row belongs to ("b") the row its b   *)
(* column names.                                                           *)

MaxRoots == 2       \* rows of the root table
MaxARows == 2       \* rows of the table relation "a" reads

NoOptions == [constraints |-> FALSE, columns |-> FALSE]

\* the options with() makes of a value: a callback, a column list, nothing
EagerOptions == { NoOptions,
                  [constraints |-> TRUE, columns |-> FALSE],
                  [constraints |-> FALSE, columns |-> TRUE] }

\* the root type declares relation "a"; "ghost" has no descriptor on it
RootRelationships == {"a"}

EagerPaths == { <<"a">>, <<"a", "b">>, <<"ghost">> }

NoMap == [k \in {} |-> NoOptions]

\* map with key set to value
Put(map, key, value) ==
    [k \in DOMAIN map \cup {key} |-> IF k = key THEN value ELSE map[k]]

\* path and the paths above it
Prefixes(path) == {SubSeq(path, 1, n) : n \in 1..Len(path)}

\* the type of the "a" rows declares soft deletes
RelatedSoftDeletes == TRUE

\* the "a" rows a loader's statement returns for the parents in keys: on SQL
\* a constraint callback adds its clause, and deleted_at IS NULL is added by
\* the loader or, with a callback, by the callback builder's own injection;
\* the document loaders ignore options and add no deleted_at filter
RowsOfA(db, keys, options) ==
    {i \in DOMAIN aRows :
        /\ aRows[i].owner \in keys
        /\ (db = "mysql" /\ options.constraints) => aRows[i].flag
        /\ (db = "mysql" /\ RelatedSoftDeletes) => aRows[i].deleted_at = NULL}

\* what setRelation stores on root r: every row for hasMany, for hasOne the
\* row the byFK map is left holding (the last one returned)
RelationA(kind, got, r) ==
    LET mine == {i \in got : aRows[i].owner = r}
    IN IF kind = "hasMany" THEN mine
       ELSE {i \in mine : \A j \in mine : j <= i}

Statement(path, keys, options) == [path |-> path, keys |-> keys, options |-> options]

\* loadRelationships: every name of withRelations, with the options held there
TopLevelLoads(models) ==
    IF "a" \in DOMAIN withRelations /\ models # {}
      THEN <<Statement(<<"a">>, models, withRelations["a"])>>
      ELSE <<>>

PathOptions(path) ==
    IF path \in DOMAIN relationPathOptions THEN relationPathOptions[path] ELSE NoOptions

\* loadRelationTree at the top: the relation is loaded again when its path
\* carries a constraint callback or a column list
Reloads(models) ==
    /\ <<"a">> \in relationTree
    /\ models # {}
    /\ PathOptions(<<"a">>).constraints \/ PathOptions(<<"a">>).columns

TopReloads(models) ==
    IF Reloads(models)
      THEN <<Statement(<<"a">>, models, PathOptions(<<"a">>))>>
      ELSE <<>>

\* the "a" rows the roots hold when the top level is done
LoadedRowsA(db, models) ==
    IF Reloads(models) THEN RowsOfA(db, models, PathOptions(<<"a">>))
    ELSE IF "a" \in DOMAIN withRelations /\ models # {}
      THEN RowsOfA(db, models, withRelations["a"])
    ELSE {}

\* the children loadRelationTree gathers from the roots
ChildContainer(db, kind, models) ==
    UNION {RelationA(kind, LoadedRowsA(db, models), r) : r \in models}

\* loadBelongsTo: the foreign keys that are not null
ForeignIds(kids) == {aRows[i].b : i \in kids} \ {NULL}

LoadsB(kids) == <<"a", "b">> \in relationTree /\ kids # {}

\* loadRelationTree one level down: relation "b" of the gathered children
NestedLoads(kids) ==
    IF LoadsB(kids) /\ ForeignIds(kids) # {}
      THEN <<Statement(<<"a", "b">>, ForeignIds(kids), PathOptions(<<"a", "b">>))>>
      ELSE <<>>

NoOutcome == [warned |-> {}, thrown |-> "none"]

\* loadRelationship of a name getRelationship does not find, on models that
\* are not empty: console.warn, then return; nothing is thrown
Warned(models) ==
    {relation \in DOMAIN withRelations :
        relation \notin RootRelationships /\ models # {}}

StaleLoads ==
    /\ loadOutcome' = NoOutcome
    /\ fetched' = FALSE
    /\ loadLog' = <<>>
    /\ loadedA' = <<>>
    /\ loadedB' = <<>>

\* the models declare relation "a" as hasOne or hasMany
Declare(kind) ==
    /\ kindA # kind
    /\ kindA' = kind
    /\ StaleLoads
    /\ EagerFrame
    /\ UNCHANGED <<nRoots, aRows, relationTree, withRelations, relationPathOptions>>

CreateRoot ==
    /\ nRoots < MaxRoots
    /\ nRoots' = nRoots + 1
    /\ StaleLoads
    /\ EagerFrame
    /\ UNCHANGED <<aRows, kindA, relationTree, withRelations, relationPathOptions>>

CreateA(owner, flag, b, deleted_at) ==
    /\ Len(aRows) < MaxARows
    /\ owner \in 1..nRoots
    /\ aRows' = Append(aRows, [owner |-> owner, flag |-> flag, b |-> b,
                               deleted_at |-> deleted_at])
    /\ StaleLoads
    /\ EagerFrame
    /\ UNCHANGED <<nRoots, kindA, relationTree, withRelations, relationPathOptions>>

\* with(path) and with({path: value})
With(path, options) ==
    /\ ~fetched
    /\ relationPathOptions' = Put(relationPathOptions, path, options)
    /\ relationTree' = relationTree \cup Prefixes(path)
    /\ withRelations' = IF path[1] \in DOMAIN withRelations
                          THEN withRelations
                          ELSE Put(withRelations, path[1], NoOptions)
    /\ EagerFrame
    /\ UNCHANGED <<nRoots, aRows, kindA, fetched, loadLog, loadedA, loadedB, loadOutcome>>

\* get(): the root statement, loadRelationships, loadRelationTree
GetWith ==
    /\ ~fetched
    /\ fetched' = TRUE
    /\ LET models == 1..nRoots
           kids == ChildContainer(dbType, kindA, models)
       IN /\ loadLog' = <<Statement(<<>>, {}, NoOptions)>>
                          \o (IF DOMAIN withRelations # {}
                                THEN TopLevelLoads(models) \o TopReloads(models)
                                       \o NestedLoads(kids)
                                ELSE <<>>)
          /\ loadedA' = IF "a" \in DOMAIN withRelations
                          THEN [r \in models |->
                                  RelationA(kindA, LoadedRowsA(dbType, models), r)]
                          ELSE <<>>
          /\ loadedB' = IF LoadsB(kids) THEN [i \in kids |-> aRows[i].b] ELSE <<>>
          /\ loadOutcome' = [warned |-> Warned(models), thrown |-> "none"]
    /\ EagerFrame
    /\ UNCHANGED <<nRoots, aRows, kindA, relationTree, withRelations, relationPathOptions>>

\* Model.query(): a new builder
NewEagerQuery ==
    /\ fetched
    /\ relationTree' = {}
    /\ withRelations' = NoMap
    /\ relationPathOptions' = NoMap
    /\ StaleLoads
    /\ EagerFrame
    /\ UNCHANGED <<nRoots, aRows, kindA>>

-----------------------------------------------------------------------------
(* The serializer.  toJSON recurses depth first; here the calls still to   *)
(* be made wait on a stack, the calls a call makes going on top in the     *)
(* order it makes them, so that the calls run in the order of the          *)
(* recursion and see the visited set as the recursion leaves it.           *)

Entities == {"A", "B"}

\* getAllRelationships(): every entity of the graph is of one type
Declared == [related |-> "belongsTo", items |-> "hasMany"]

\* the keys of attributesToArray
BaseAttributes == {"id", "name"}

NullRel == [t |-> "null"]
OneRel(e) == [t |-> "one", e |-> e]
ManyRel(es) == [t |-> "many", es |-> es]

\* values setLoadedRelation / setRelation store
RelatedValues(ent) == {NullRel} \cup {OneRel(e) : e \in Entities \ {ent}}
ItemsValues == {ManyRel(<<>>), ManyRel(<<"B">>)}

DefaultMaxDepth == 10

Options(tree, include, exclude, maxDepth) ==
    [relationTree |-> tree, include |-> include, exclude |-> exclude, maxDepth |-> maxDepth]

\* the options objects callers pass to toJSON: none, a builder's relation
\* tree (toArray), an include list, an exclude list, a smaller maxDepth
CallOptions ==
    { Options({}, {}, {}, DefaultMaxDepth),
      Options({<<"related">>}, {}, {}, DefaultMaxDepth),
      Options({<<"items">>}, {}, {}, DefaultMaxDepth),
      Options({<<"related">>, <<"related", "related">>}, {}, {}, DefaultMaxDepth),
      Options({}, {<<"items">>}, {}, DefaultMaxDepth),
      Options({}, {<<"name">>}, {}, DefaultMaxDepth),
      Options({}, {<<"related", "items">>}, {}, DefaultMaxDepth),
      Options({}, {}, {"items"}, DefaultMaxDepth),
      Options({}, {}, {}, 2),
      Options({}, {}, {}, 3) }

LoadedKeys(ent) == {relationshipsLoaded[ent][i].rel : i \in DOMAIN relationshipsLoaded[ent]}

\* Object.keys(tree)
TreeKeys(tree) == {path[1] : path \in tree}

\* tree[rel] || {}
SubTree(tree, rel) ==
    {SubSeq(path, 2, Len(path)) : path \in {q \in tree : q[1] = rel /\ Len(q) > 1}}

\* the include paths with a dot
Dotted(include) == {path \in include : Len(path) > 1}

ComputedTree(call) ==
    call.relationTree \cup UNION {Prefixes(path) : path \in Dotted(call.include)}

KnownRelations(ent) == LoadedKeys(ent) \cup DOMAIN Declared

DirectRelations(call) ==
    {path[1] : path \in Dotted(call.include)}
      \cup {path[1] : path \in {q \in call.include :
                                  Len(q) = 1 /\ q[1] \in KnownRelations(call.ent)}}

IncludeAttr(call) ==
    {path[1] : path \in {q \in call.include :
                           Len(q) = 1 /\ q[1] \notin KnownRelations(call.ent)}}

\* the attribute keys of the object
FilteredAttributes(call) ==
    {k \in BaseAttributes :
        /\ IncludeAttr(call) = {} \/ k \in IncludeAttr(call)
        /\ k \notin call.exclude}

HasFilter(call) == DirectRelations(call) # {} \/ ComputedTree(call) # {}

\* the relation passes the inclusion filter
Allowed(call, rel) ==
    HasFilter(call) => (rel \in DirectRelations(call) \/ <<rel>> \in ComputedTree(call))

\* serializeRelationships is entered at all
EntersRelationships(call) ==
    call.withRelations /\ Len(relationshipsLoaded[call.ent]) > 0

\* the loaded entries serializeRelationships writes a key for
Written(call) ==
    IF EntersRelationships(call)
      THEN SelectSeq(relationshipsLoaded[call.ent],
                     LAMBDA entry : /\ entry.rel \notin call.exclude
                                    /\ Allowed(call, entry.rel)
                                    /\ entry.val.t # "null")
      ELSE <<>>

WrittenKeys(call) == {Written(call)[i].rel : i \in DOMAIN Written(call)}

\* the declared relations that get a placeholder
Placeholders(call) ==
    IF call.withRelations
      THEN {rel \in DOMAIN Declared :
              /\ rel \notin WrittenKeys(call)
              /\ Allowed(call, rel)
              /\ rel \notin call.exclude}
      ELSE {}

IsToOne(kind) == kind \in {"hasOne", "belongsTo", "morphOne"}

\* the relation keys of the object with the shape of each value
RelationShapes(call) ==
    [rel \in WrittenKeys(call) \cup Placeholders(call) |->
        IF rel \in WrittenKeys(call)
          THEN LET entry == CHOOSE e \in {Written(call)[i] : i \in DOMAIN Written(call)} :
                               e.rel = rel
               IN IF entry.val.t = "many" THEN "list" ELSE "object"
          ELSE IF IsToOne(Declared[rel]) THEN "null" ELSE "list"]

\* the options of the toJSON call made on a related entity: depth, visited
\* set and withRelations go down, the exclude list does not
ChildCall(call, rel, ent) ==
    LET nestedTree == SubTree(ComputedTree(call), rel)
    IN [ent |-> ent,
        currentDepth |-> (call.currentDepth + 1) + 1,
        maxDepth |-> call.maxDepth,
        relationTree |-> nestedTree,
        include |-> {<<k>> : k \in TreeKeys(nestedTree)},
        exclude |-> {},
        withRelations |-> call.withRelations,
        path |-> Append(call.path, rel)]

\* the related entities of one loaded entry, in order
Related(val) == IF val.t = "many" THEN val.es ELSE <<val.e>>

RECURSIVE ChildCalls(_, _)
ChildCalls(call, entries) ==
    IF entries = <<>> THEN <<>>
    ELSE [i \in DOMAIN Related(Head(entries).val) |->
             ChildCall(call, Head(entries).rel, Related(Head(entries).val)[i])]
           \o ChildCalls(call, Tail(entries))

\* visited.has(this)
AlreadyVisitedOff(ent, seen) == FALSE

AlreadyVisited(ent, seen) == ent \in seen

Marker(call, kind) ==
    [path |-> call.path, ent |-> call.ent, kind |-> kind, attrs |-> {},
     rels |-> [rel \in {} |-> "null"], withRelations |-> call.withRelations,
     exclude |-> call.exclude, maxDepth |-> call.maxDepth]

\* what one toJSON call returns
Returned(call, seen) ==
    IF AlreadyVisited(call.ent, seen) THEN Marker(call, "[Circular]")
    ELSE IF call.currentDepth >= call.maxDepth THEN Marker(call, "[Max Depth Reached]")
    ELSE [path |-> call.path, ent |-> call.ent, kind |-> "object",
          attrs |-> FilteredAttributes(call), rels |-> RelationShapes(call),
          withRelations |-> call.withRelations, exclude |-> call.exclude,
          maxDepth |-> call.maxDepth]

\* setLoadedRelation(name, value): a key keeps its place when set again
SetLoaded(entries, rel, val) ==
    IF \E i \in DOMAIN entries : entries[i].rel = rel
      THEN [i \in DOMAIN entries |->
              IF entries[i].rel = rel THEN [rel |-> rel, val |-> val] ELSE entries[i]]
      ELSE Append(entries, [rel |-> rel, val |-> val])

SetLoadedRelation(ent, rel, val) ==
    /\ sPc = "idle"
    /\ relationshipsLoaded' =
         [relationshipsLoaded EXCEPT ![ent] = SetLoaded(relationshipsLoaded[ent], rel, val)]
    /\ SerialFrame
    /\ UNCHANGED <<sPc, sStack, visited, sOut>>

\* entity.toJSON(options): a new visited set, depth 0
ToJSON(ent, options) ==
    /\ sPc = "idle"
    /\ sPc' = "run"
    /\ sStack' = <<[ent |-> ent, currentDepth |-> 0, maxDepth |-> options.maxDepth,
                    relationTree |-> options.relationTree, include |-> options.include,
                    exclude |-> options.exclude, withRelations |-> TRUE, path |-> <<>>]>>
    /\ visited' = {}
    /\ sOut' = <<>>
    /\ SerialFrame
    /\ UNCHANGED relationshipsLoaded

\* the next toJSON call of the recursion
ToJSONCall ==
    /\ sPc = "run"
    /\ sStack # <<>>
    /\ LET call == Head(sStack)
           ret == Returned(call, visited)
           rest == (IF ret.kind = "object" THEN ChildCalls(call, Written(call)) ELSE <<>>)
                     \o Tail(sStack)
       IN /\ visited' = visited \cup {call.ent}
          /\ sOut' = Append(sOut, ret)
          /\ sStack' = rest
          /\ sPc' = IF rest = <<>> THEN "done" ELSE "run"
    /\ SerialFrame
    /\ UNCHANGED relationshipsLoaded

\* the caller takes the value
TakeJSON ==
    /\ sPc = "done"
    /\ sPc' = "idle"
    /\ sOut' = <<>>
    /\ visited' = {}
    /\ SerialFrame
    /\ UNCHANGED <<relationshipsLoaded, sStack>>

-----------------------------------------------------------------------------
(* Many-to-many pivot management (src/src/eloquent/relationships.ts):      *)
(* attach, detach, sync and toggle of one parent whose primary key is set. *)
(* A key is a number or a string, [t, n]: 1 and "1" are different values   *)
(* of the language and the same key of the store.                          *)

MaxKey == 2
MaxTarget == 2

KeyTypes == {"num", "str"}
PivotKeys == {[t |-> ty, n |-> n] : ty \in KeyTypes, n \in 1..MaxKey}

\* String(id)
KeyString(k) == [t |-> "str", n |-> k.n]

\* the value a pivot row keeps for a key written to it: SQL converts it to
\* the column's type, a document keeps the value as written (coerceFK
\* changes 24-digit hex strings only)
Stored(db, as, k) == IF db = "mongodb" THEN k ELSE [t |-> as, n |-> k.n]

FormsExact(k) == {k}

\* the values a key is matched against: relForms on the document backend
\* (the value, String(id), parseInt of it), the coercing IN (...) of SQL
Forms(k) == {[t |-> ty, n |-> k.n] : ty \in KeyTypes}

\* attach of one key: an upsert on the pair, INSERT IGNORE / ON DUPLICATE KEY
AttachRow(db, as, store, k) == store \cup {Stored(db, as, k)}

RECURSIVE AttachRows(_, _, _, _)
AttachRows(db, as, store, ks) ==
    IF ks = <<>> THEN store
    ELSE AttachRows(db, as, AttachRow(db, as, store, Head(ks)), Tail(ks))

\* detach(relatedIds): no ids, every row of the parent goes
DetachRows(store, ks) ==
    IF ks = <<>> THEN {}
    ELSE {r \in store : \A i \in DOMAIN ks : r \notin Forms(ks[i])}

CurrentIdsSetNone(db, store) == {}

\* sync reads the keys once: as strings on the document backend, as the
\* driver returns them on SQL
CurrentIdsSet(db, store) ==
    IF db = "mongodb" THEN {KeyString(r) : r \in store} ELSE store

\* the loop of sync over the supplied list; every element carries pivot
\* data (extra) or none does
RECURSIVE SyncEach(_, _, _, _, _, _)
SyncEach(db, as, relatedIds, extra, currentIdsSet, acc) ==
    IF relatedIds = <<>> THEN acc
    ELSE LET actualId == Head(relatedIds)
             has == KeyString(actualId) \in currentIdsSet
         IN SyncEach(db, as, Tail(relatedIds), extra, currentIdsSet,
              [store    |-> IF has THEN acc.store
                            ELSE AttachRow(db, as, acc.store, actualId),
               newIds   |-> acc.newIds \cup {KeyString(actualId)},
               attached |-> IF has THEN acc.attached
                            ELSE acc.attached \cup {actualId},
               updated  |-> IF has /\ extra THEN acc.updated \cup {actualId}
                            ELSE acc.updated])

SyncResult(db, as, store, relatedIds, extra, detaching) ==
    LET currentIdsSet == CurrentIdsSet(db, store)
        done == SyncEach(db, as, relatedIds, extra, currentIdsSet,
                  [store |-> store, newIds |-> {}, attached |-> {}, updated |-> {}])
        gone == IF detaching
                  THEN {c \in currentIdsSet : KeyString(c) \notin done.newIds}
                  ELSE {}
    IN [store    |-> {r \in done.store : \A c \in gone : r \notin Forms(c)},
        attached |-> done.attached,
        detached |-> gone,
        updated  |-> done.updated,
        failed   |-> FALSE]

\* toggle: the SQL statement of an empty list, "IN ()", is refused by the
\* driver and the call throws before it writes
ToggleResult(db, as, store, relatedIds) ==
    IF db # "mongodb" /\ relatedIds = <<>>
      THEN [store |-> store, attached |-> <<>>, detached |-> <<>>, failed |-> TRUE]
      ELSE
        LET currentRows == {r \in store : \E i \in DOMAIN relatedIds : r \in Forms(relatedIds[i])}
            currentIds == {KeyString(r) : r \in currentRows}
            toAttach == SelectSeq(relatedIds, LAMBDA id : KeyString(id) \notin currentIds)
            toDetach == SelectSeq(relatedIds, LAMBDA id : KeyString(id) \in currentIds)
            afterAttach == IF toAttach # <<>> THEN AttachRows(db, as, store, toAttach) ELSE store
        IN [store    |-> IF toDetach # <<>> THEN DetachRows(afterAttach, toDetach)
                         ELSE afterAttach,
            attached |-> toAttach,
            detached |-> toDetach,
            failed   |-> FALSE]

\* the lists the callers pass, in one order: the handlers treat every
\* order alike
KeyBefore(x, y) == x.n < y.n \/ (x.n = y.n /\ (x.t = "num" \/ y.t = "str"))
KeyLists ==
    {ks \in UNION {[1..len -> PivotKeys] : len \in 0..MaxTarget} :
        \A i \in DOMAIN ks : i = 1 \/ KeyBefore(ks[i - 1], ks[i])}

NoPivotCall == [op |-> "none"]

Attach(relatedId) ==
    /\ pivot' = AttachRow(dbType, keysAs, pivot, relatedId)
    /\ pivotCall' = [op |-> "attach", keys |-> <<relatedId>>, before |-> pivot]
    /\ UNCHANGED keysAs
    /\ PivotFrame

Detach(relatedIds) ==
    /\ pivot' = DetachRows(pivot, relatedIds)
    /\ pivotCall' = [op |-> "detach", keys |-> relatedIds, before |-> pivot]
    /\ UNCHANGED keysAs
    /\ PivotFrame

Sync(relatedIds, extra, detaching) ==
    LET res == SyncResult(dbType, keysAs, pivot, relatedIds, extra, detaching)
    IN /\ pivot' = res.store
       /\ pivotCall' = [op |-> "sync", keys |-> relatedIds, extra |-> extra,
                        detaching |-> detaching, before |-> pivot,
                        attached |-> res.attached, detached |-> res.detached,
                        updated |-> res.updated, failed |-> res.failed]
       /\ UNCHANGED keysAs
       /\ PivotFrame

Toggle(relatedIds) ==
    LET res == ToggleResult(dbType, keysAs, pivot, relatedIds)
    IN /\ pivot' = res.store
       /\ pivotCall' = [op |-> "toggle", keys |-> relatedIds, before |-> pivot,
                        attached |-> res.attached, detached |-> res.detached,
                        failed |-> res.failed]
       /\ UNCHANGED keysAs
       /\ PivotFrame

-----------------------------------------------------------------------------
(* Eager loading of a relation tree.  The root type declares the relations *)
(* "a" and "d"; "a" rows declare "b", "b" rows declare "c", "d" rows       *)
(* declare "e".  A path is the sequence of its segments.                   *)

MaxWith == 3        \* with() calls on one builder

TreePaths == { <<"a">>, <<"a", "b">>, <<"a", "b", "c">>, <<"d">>, <<"d", "e">> }

TreeOptions == { NoOptions, [constraints |-> TRUE, columns |-> FALSE] }

Parent(path) == SubSeq(path, 1, Len(path) - 1)

\* addPathToTree: the keys under node, in the order the with() calls made them
RECURSIVE ChildrenFrom(_, _, _)
ChildrenFrom(calls, node, acc) ==
    IF calls = <<>> THEN acc
    ELSE LET path == Head(calls).path
             seg == IF Len(path) > Len(node) /\ SubSeq(path, 1, Len(node)) = node
                      THEN <<SubSeq(path, 1, Len(node) + 1)>>
                      ELSE <<>>
             new == IF seg # <<>> /\ \A i \in DOMAIN acc : acc[i] # seg[1]
                      THEN seg ELSE <<>>
         IN ChildrenFrom(Tail(calls), node, acc \o new)

TreeChildren(calls, node) == ChildrenFrom(calls, node, <<>>)

\* relationPathOptions.get(currentPath) || {}: the last call on the path wins
RECURSIVE TreePathOptions(_, _)
TreePathOptions(calls, path) ==
    IF calls = <<>> THEN NoOptions
    ELSE IF calls[Len(calls)].path = path THEN calls[Len(calls)].options
    ELSE TreePathOptions(SubSeq(calls, 1, Len(calls) - 1), path)

\* loadRelationships: every name of withRelations, in the order of the map
LoadTopLevel(calls, store) ==
    IF <<>> \in store THEN TreeChildren(calls, <<>>) ELSE <<>>

\* loadRelationTree over the keys of one node, whose models are not empty:
\* each key is loaded (a top-level key only when its path carries options),
\* then its own subtree is walked before the next key is looked at
RECURSIVE LoadRelationTree(_, _, _)
LoadRelationTree(calls, store, keys) ==
    IF keys = <<>> THEN <<>>
    ELSE LET currentPath == Head(keys)
             options == TreePathOptions(calls, currentPath)
             own == IF Len(currentPath) = 1
                      THEN IF options.constraints \/ options.columns
                             THEN <<currentPath>> ELSE <<>>
                      ELSE <<currentPath>>
             subtree == TreeChildren(calls, currentPath)
             below == IF subtree # <<>> /\ currentPath \in store
                        THEN LoadRelationTree(calls, store, subtree)
                        ELSE <<>>
         IN own \o below \o LoadRelationTree(calls, store, Tail(keys))

\* the store gains an entity along path, under an entity that exists
CreateRelated(path) ==
    /\ path \notin related
    /\ path = <<>> \/ Parent(path) \in related
    /\ related' = related \cup {path}
    /\ treeFetched' = FALSE
    /\ treeLog' = <<>>
    /\ TreeFrame
    /\ UNCHANGED treeWith

\* with(path) and with({path: callback})
WithTree(path, options) ==
    /\ ~treeFetched
    /\ Len(treeWith) < MaxWith
    /\ treeWith' = Append(treeWith, [path |-> path, options |-> options])
    /\ TreeFrame
    /\ UNCHANGED <<related, treeFetched, treeLog>>

\* get(): loadRelationships, then loadRelationTree from the root
GetTree ==
    /\ ~treeFetched
    /\ treeFetched' = TRUE
    /\ treeLog' = IF treeWith # <<>>
                    THEN LoadTopLevel(treeWith, related)
                           \o (IF <<>> \in related
                                 THEN LoadRelationTree(treeWith, related,
                                                       TreeChildren(treeWith, <<>>))
                                 ELSE <<>>)
                    ELSE <<>>
    /\ TreeFrame
    /\ UNCHANGED <<treeWith, related>>

\* Model.query(): a new builder
NewTreeQuery ==
    /\ treeFetched
    /\ treeWith' = <<>>
    /\ treeFetched' = FALSE
    /\ treeLog' = <<>>
    /\ TreeFrame
    /\ UNCHANGED related

-----------------------------------------------------------------------------
(* whereHas with nested has-conditions.  Every type has one hasMany        *)
(* relation to the next: a parent has children, a child grandchildren, a   *)
(* grandchild great-grandchildren; no type soft-deletes.  A parent of      *)
(* chain depth d has one descendant at each of the levels 1..d.  The       *)
(* builder holds whereHas(r1, q => q.whereHas(r2, q => q.whereHas(r3))):   *)
(* nestedHas[k] is the condition on the relation from level k-1 to k.      *)

MaxNest == 3        \* levels below a parent, and whereHas calls nested in one another
MaxChains == 2      \* parents in the store

HasArgs == { [operator |-> ">=", count |-> 1], [operator |-> "=", count |-> 0] }

NestedConds == UNION {[1..n -> HasArgs] : n \in 1..MaxNest}

NoNestedCall == [op |-> "none"]

\* buildHasConditionsSQL: the COUNT(*) of the correlated subquery of condition
\* k for the entity at level k-1 of a chain; the has-conditions of the
\* callback's builder are compiled into the subquery by the same method
RECURSIVE CountSQL(_, _, _)
CountSQL(depth, k, conds) ==
    IF /\ depth >= k
       /\ (k < Len(conds) =>
             HasOk(conds[k + 1].operator, CountSQL(depth, k + 1, conds), conds[k + 1].count))
      THEN 1 ELSE 0

KeepsSQL(depth, conds) ==
    conds = <<>> \/ HasOk(conds[1].operator, CountSQL(depth, 1, conds), conds[1].count)

\* applyNestedHasForRelatedDocs: the related documents that pass the
\* callback's has-conditions; each is tested with countDocuments over the
\* next level, the has-conditions of the inner callback are not read
ApplyNestedHasForRelatedDocs(depth, conds) ==
    IF depth >= 1
      THEN IF Len(conds) = 1 THEN 1
           ELSE IF HasOk(conds[2].operator, IF depth >= 2 THEN 1 ELSE 0, conds[2].count)
             THEN 1 ELSE 0
      ELSE 0

\* applyHasConditionsMongo on one candidate
KeepsMongo(depth, conds) ==
    conds = <<>> \/
        HasOk(conds[1].operator, ApplyNestedHasForRelatedDocs(depth, conds), conds[1].count)

\* the store gains a parent with a chain of descendants
CreateChain(depth) ==
    /\ Len(chains) < MaxChains
    /\ chains' = Append(chains, depth)
    /\ nestedCall' = NoNestedCall
    /\ NestFrame
    /\ UNCHANGED nestedHas

\* whereHas(relation, callback, operator, count), the callback calling whereHas in turn
WhereHasNested(conds) ==
    /\ nestedHas = <<>>
    /\ nestedHas' = conds
    /\ nestedCall' = NoNestedCall
    /\ NestFrame
    /\ UNCHANGED chains

\* get() with has-conditions: a WHERE with correlated subqueries on SQL, a
\* filter over the fetched candidates on the document store
GetNested ==
    /\ nestedCall' =
         [op |-> "get",
          rows |-> {i \in DOMAIN chains :
                      IF dbType = "mongodb" THEN KeepsMongo(chains[i], nestedHas)
                                            ELSE KeepsSQL(chains[i], nestedHas)}]
    /\ NestFrame
    /\ UNCHANGED <<chains, nestedHas>>

\* Model.query(): a new builder
NewNestedQuery ==
    /\ nestedHas # <<>>
    /\ nestedHas' = <<>>
    /\ nestedCall' = NoNestedCall
    /\ NestFrame
    /\ UNCHANGED chains

-----------------------------------------------------------------------------
(* Identifier coercion on the document store.  user_id is an id-like       *)
(* field; a value is a number, a string of digits, a string of 24 hex      *)
(* digits or an ObjectId.  The store compares values with their type: the  *)
(* number 1 and the string "1" are different values.                       *)

HexV(h) == [t |-> "hex24", h |-> h]
OidV(h) == [t |-> "oid", h |-> h]

IdValues == { NumV(1), NumV(2), StrV(1), StrV(2), HexV(1), HexV(2), OidV(1) }

\* String(v)
IdString(v) == IF v.t = "num" THEN StrV(v.n) ELSE IF v.t = "oid" THEN HexV(v.h) ELSE v

\* normalizeForeignIds of save(): an ObjectId where the text is 24 hex
\* digits, the text otherwise
NormalizeForeignId(v) ==
    IF v.t = "oid" THEN v
    ELSE IF IdString(v).t = "hex24" THEN OidV(IdString(v).h)
    ELSE IdString(v)

\* coerceForField on an id-like field: an ObjectId where the text is 24 hex
\* digits, the value as it is otherwise
CoerceForField(v) ==
    IF v.t = "oid" THEN v
    ELSE IF IdString(v).t = "hex24" THEN OidV(IdString(v).h)
    ELSE v

NoIdCall == [op |-> "none"]

\* new Model({user_id: v}).save() on the document store
SaveDoc(v) ==
    /\ \A d \in idDocs : d.input # v
    /\ idDocs' = idDocs \cup {[input |-> v, user_id |-> NormalizeForeignId(v)]}
    /\ idCall' = NoIdCall
    /\ IdFrame

\* Model.query().where('user_id', v).get(): the filter {user_id: coerced v}
WhereGet(v) ==
    /\ idCall' = [op |-> "get", value |-> v,
                  rows |-> {d \in idDocs : d.user_id = CoerceForField(v)}]
    /\ IdFrame
    /\ UNCHANGED idDocs

-----------------------------------------------------------------------------
(* Specifications: one per part, the other parts idle.                     *)

\* every part starts from the same state: a connection to one of the stores
\* in dbs, a fresh builder over the fixture table, a fresh entity
Start(dbs) ==
    /\ dbType \in dbs
    /\ rows = Fixture
    /\ whereClauses = <<>>
    /\ includeTrashed = FALSE
    /\ onlyTrashedFlag = FALSE
    /\ appliedSoftDeleteFilter = FALSE
    /\ lastTerminal = "none"
    /\ result = {}
    /\ attributes = NoAttributes
    /\ original = NoAttributes
    /\ existsFlag = FALSE
    /\ clock = 1
    /\ nextId = 2
    /\ lastCall = [op |-> "construct", input |-> NoAttributes]
    /\ lastWrite = NoWrite
    /\ attributeCache = NoCache
    /\ readCall = NoRead
    /\ parents = <<>>
    /\ hasConditions = <<>>
    /\ hasCall = NoHasCall
    /\ limitValue = 0
    /\ offsetValue = 0
    /\ pageCall = NoPageCall
    /\ page = NoPage
    /\ nRoots = 0
    /\ aRows = <<>>
    /\ kindA = "hasMany"
    /\ relationTree = {}
    /\ withRelations = NoMap
    /\ relationPathOptions = NoMap
    /\ fetched = FALSE
    /\ loadLog = <<>>
    /\ loadedA = <<>>
    /\ loadedB = <<>>
    /\ loadOutcome = NoOutcome
    /\ relationshipsLoaded = [ent \in Entities |-> <<>>]
    /\ sPc = "idle"
    /\ sStack = <<>>
    /\ visited = {}
    /\ sOut = <<>>
    /\ pivot = {}
    /\ pivotCall = NoPivotCall
    /\ treeWith = <<>>
    /\ related = {}
    /\ treeFetched = FALSE
    /\ treeLog = <<>>
    /\ chains = <<>>
    /\ nestedHas = <<>>
    /\ nestedCall = NoNestedCall
    /\ idDocs = {}
    /\ idCall = NoIdCall
    /\ pending = NoPending

\* the pivot column of the fixture holds numbers
Init == Start({"mysql", "mongodb"}) /\ keysAs = "num"

QueryNext ==
    \/ \E arg \in WhereArgs : Where(arg[1], arg[2])
    \/ \E arg \in OrWhereArgs : OrWhere(arg[1], arg[2])
    \/ \E arg \in InArgs : WhereIn(arg[1], arg[2])
    \/ \E arg \in NotInArgs : WhereNotIn(arg[1], arg[2])
    \/ \E arg \in BetweenArgs : WhereBetween(arg[1], arg[2])
    \/ \E arg \in NotBetweenArgs : WhereNotBetween(arg[1], arg[2])
    \/ \E col \in NullArgs : WhereNull(col)
    \/ \E col \in NullArgs : WhereNotNull(col)
    \/ \E group \in Groups : WhereNested(group)
    \/ \E group \in Groups : OrWhereNested(group)
    \/ WithTrashed
    \/ WithoutTrashed
    \/ OnlyTrashed
    \/ Get
    \/ First
    \/ Count
    \/ \E id \in Deletable : SoftDelete(id)
    \/ NewQuery



EntityNext ==
    \/ \E attrs \in NewRows : Construct(attrs)
    \/ \E row \in HydrateRows : Hydrate(row)
    \/ \E arg \in SetArgs : SetAttribute(arg[1], arg[2])
    \/ \E force \in BOOLEAN : Save(force)
    \/ \E found \in {{}} \cup {{row} : row \in HydrateRows} : Load(found, LoadRelations)
    \/ \E row \in {r \in HydrateRows : "id" \in DOMAIN r} : GetResults(row)

SpecQuery == Init /\ [][QueryNext]_vars

SpecEntity == Init /\ [][EntityNext]_vars

AccessorNext ==
    \/ \E attrs \in FillRows : Construct(attrs)
    \/ \E row \in StoredRows : Hydrate(row)
    \/ \E arg \in AssignArgs : SetAttribute(arg[1], arg[2])
    \/ \E row \in FillRows : Fill(row)
    \/ \E arg \in AssignArgs : Assign(arg[1], arg[2])
    \/ \E found \in {{}} \cup {{row} : row \in StoredRows} : Refresh(found)
    \/ \E key \in ReadKeys : GetAttribute(key)
    \/ \E key \in ReadKeys : GetAttributeAsync(key)

\* the attribute store does not read getDbType()
AccessorInit == Start({"mysql"}) /\ keysAs = "num"

SpecAccessor == AccessorInit /\ [][AccessorNext]_vars

\* one task reads through asynchronous accessors, another writes
AsyncNext ==
    \/ \E row \in StoredRows : Hydrate(row)
    \/ \E arg \in AsyncSetArgs : SetAttribute(arg[1], arg[2])
    \/ \E key \in AsyncKeys : BeginGetAttributeAsync(key)
    \/ EndGetAttributeAsync
    \/ \E key \in AsyncKeys : GetAttributeAsync(key)

SpecAsync == AccessorInit /\ [][AsyncNext]_vars

PageNext ==
    \/ \E hasRel \in BOOLEAN : CreateParent(hasRel)
    \/ \E relation \in RelationNames : WhereHas(relation)
    \/ \E perPage \in PerPageInputs, pg \in PageInputs : Paginate(perPage, pg)

SpecPaginate == Init /\ [][PageNext]_vars

HasNext ==
    \/ \E hasRel \in BOOLEAN : CreateParent(hasRel)
    \/ \E relation \in RelationNames : WhereHas(relation)
    \/ \E relation \in RelationNames : WhereDoesntHave(relation)
    \/ \E limit \in 1..MaxParents : Limit(limit)
    \/ GetParents
    \/ \E fn \in Aggregates : Aggregate(fn)

SpecHas == Init /\ [][HasNext]_vars

EagerNext ==
    \/ \E kind \in {"hasMany", "hasOne"} : Declare(kind)
    \/ CreateRoot
    \/ \E owner \in 1..MaxRoots, flag \in BOOLEAN, b \in {NULL, 1} :
          \E deleted_at \in {NULL} \cup (IF flag /\ b = NULL THEN {1} ELSE {}) :
              CreateA(owner, flag, b, deleted_at)
    \/ \E path \in EagerPaths, options \in EagerOptions : With(path, options)
    \/ GetWith
    \/ NewEagerQuery

SpecEager == Init /\ [][EagerNext]_vars

SerialNext ==
    \/ \E ent \in Entities : \E val \in RelatedValues(ent) : SetLoadedRelation(ent, "related", val)
    \/ \E ent \in Entities, val \in ItemsValues : SetLoadedRelation(ent, "items", val)
    \/ \E ent \in Entities, options \in CallOptions : ToJSON(ent, options)
    \/ ToJSONCall
    \/ TakeJSON

\* a toJSON call runs to its end: nothing else runs while it does
\* the serializer does not touch the store
SerialInit == Start({"mysql"}) /\ keysAs = "num"

SpecSerialize == SerialInit /\ [][SerialNext]_vars /\ WF_vars(ToJSONCall)

PivotNext ==
    \/ \E relatedId \in PivotKeys : Attach(relatedId)
    \/ \E relatedIds \in KeyLists : Detach(relatedIds)
    \/ \E relatedIds \in KeyLists, extra \in BOOLEAN, detaching \in BOOLEAN :
          Sync(relatedIds, extra, detaching)
    \/ \E relatedIds \in KeyLists : Toggle(relatedIds)

\* a SQL driver returns the keys of a pivot column as numbers or as strings
PivotInit ==
    Start({"mysql", "mongodb"}) /\ keysAs \in (IF dbType = "mongodb" THEN {"num"} ELSE KeyTypes)

SpecPivot == PivotInit /\ [][PivotNext]_vars

TreeNext ==
    \/ \E path \in TreePaths \cup {<<>>} : CreateRelated(path)
    \/ \E path \in TreePaths, options \in TreeOptions : WithTree(path, options)
    \/ GetTree
    \/ NewTreeQuery

\* the order of the loads does not depend on the store's kind
TreeInit == Start({"mysql"}) /\ keysAs = "num"

SpecTree == TreeInit /\ [][TreeNext]_vars

NestNext ==
    \/ \E depth \in 0..MaxNest : CreateChain(depth)
    \/ \E conds \in NestedConds : WhereHasNested(conds)
    \/ GetNested
    \/ NewNestedQuery

SpecNest == Init /\ [][NestNext]_vars

IdNext ==
    \/ \E v \in IdValues : SaveDoc(v)
    \/ \E v \in IdValues : WhereGet(v)

IdInit == Start({"mongodb"}) /\ keysAs = "num"

SpecId == IdInit /\ [][IdNext]_vars

-----------------------------------------------------------------------------
(* Soft-delete scoping and predicate equivalence.                          *)

IsRead == lastTerminal \in {"get", "first", "count"}

\* the clauses the caller wrote: every clause on deleted_at in this model
\* comes from the builder itself (the injection or onlyTrashed)
RECURSIVE CallerClauses(_)
CallerClauses(cs) ==
    LET own == SelectSeq(cs, LAMBDA w : w.column # "deleted_at")
    IN [i \in DOMAIN own |->
          IF own[i].operator = "nested"
            THEN [own[i] EXCEPT !.value = ClausesV(CallerClauses(own[i].value.cs))]
            ELSE own[i]]

\* what the caller's clauses select on this backend when the entity type
\* declares no soft-delete support
BaseSelect ==
    ExecuteQuery(dbType, CallerClauses(whereClauses), FALSE, FALSE, FALSE, FALSE, rows)

\* C1: on a soft-deleting type, a terminal read of a builder in neither
\* withTrashed nor onlyTrashed mode returns no entity whose deleted_at is set,
\* whatever clauses were accumulated, on both backends.
C1_DefaultReadHidesTrashed ==
    (SoftDeletes /\ IsRead /\ ~includeTrashed /\ ~onlyTrashedFlag)
        => result \cap Deleted(rows) = {}

\* C2: a fetch of a builder put into withTrashed mode before its first
\* terminal call returns the soft-deleted entities together with the others
\* (everything the caller's clauses select), and a fetch in onlyTrashed mode
\* returns exactly the soft-deleted ones among them; on both backends, nested
\* where-groups included.
C2_TrashedModes ==
    lastTerminal = "get" =>
        /\ (includeTrashed /\ ~onlyTrashedFlag /\ ~appliedSoftDeleteFilter
              /\ ~HasDeletedAtColumn(whereClauses))
             => result = BaseSelect
        /\ onlyTrashedFlag => result = BaseSelect \cap Deleted(rows)

\* the clause lists P1 speaks of: equality, IN, BETWEEN and NULL tests only
IsP1Clause(w) ==
    \/ w.operator = "=" /\ w.value.t \in {"num", "null"}
    \/ w.operator = "!=" /\ w.value.t = "null"
    \/ w.operator \in {"IN", "BETWEEN"} /\ w.value.t = "arr"

IsP1List(cs) == \A i \in DOMAIN cs : IsP1Clause(cs[i])

\* C3: for a clause list of equality, IN, BETWEEN and NULL clauses joined by
\* and / or, the SQL WHERE text (read with SQL precedence) and the document
\* filter select the same rows of the same table.
C3_CompilersAgree ==
    IsP1List(whereClauses) =>
        SqlSelect(whereClauses, rows) = MongoSelect(whereClauses, rows)

-----------------------------------------------------------------------------
(* Dirty tracking and save().                                              *)

\* C4: right after hydrate(row), isDirty() is false and isDirty(f) is false
\* for every field f; after setAttribute(f, v) with v different from f's
\* current value, isDirty(f) is true; after save(), isDirty() is false.
C4_DirtyTracking ==
    /\ lastCall.op = "hydrate" =>
         /\ ~IsDirtyAny(attributes, original)
         /\ \A f \in DOMAIN attributes : ~IsDirtyKey(attributes, original, f)
    /\ (lastCall.op = "setAttribute" /\ StrictNe(lastCall.value, lastCall.prev)) =>
         IsDirtyKey(attributes, original, lastCall.key)
    /\ lastCall.op = "save" => ~IsDirtyAny(attributes, original)

\* C5: save() without force on an entity whose existsFlag is false issues an
\* insert and sets existsFlag; on an entity whose existsFlag is true it issues
\* no insert and writes only dirty fields, keyed by the primary key, whatever
\* fields the row it was hydrated from held.
C5_SaveInsertsOrUpdates ==
    (lastCall.op = "save" /\ ~lastCall.force) =>
        IF ~lastCall.existed
          THEN lastWrite.kind = "insert" /\ existsFlag
          ELSE /\ lastWrite.kind # "insert"
               /\ lastWrite.cols \subseteq lastCall.dirty
               /\ lastWrite.kind = "update" => lastWrite.key.t # "undefined"

-----------------------------------------------------------------------------
(* Pagination.                                                             *)

IsWhole(x) == IsFinite(x) /\ x.halves % 2 = 0

\* C6: for p >= 1 and k >= 1, paginate(p, k) on a query matching T entities
\* returns min(p, max(0, T - (k-1)p)) of them, reports total = T and
\* lastPage = max(1, ceil(T / p)), and returns none beyond lastPage.
C6_PageSizeAndTotals ==
    (page.called /\ IsWhole(pageCall.perPage) /\ IsWhole(pageCall.page)
       /\ Floor(pageCall.perPage) >= 1 /\ Floor(pageCall.page) >= 1) =>
        LET p == Floor(pageCall.perPage)
            k == Floor(pageCall.page)
            T == GetCount(dbType, hasConditions)
        IN /\ Len(page.data) = Min(p, Max(0, T - (k - 1) * p))
           /\ page.total = T
           /\ page.lastPage = Max(1, CeilDiv(T, p))
           /\ k > page.lastPage => page.data = <<>>

\* C7: for any input, paginate clamps perPage to 1..100 and page to >= 1,
\* the offset is (page - 1) * perPage, and the reported perPage is <= 100.
C7_PerPageClamped ==
    page.called =>
        /\ page.perPage \in 1..100
        /\ limitValue \in 1..100
        /\ page.currentPage >= 1
        /\ offsetValue = (page.currentPage - 1) * page.perPage

-----------------------------------------------------------------------------
(* Eager loading.                                                          *)

\* the statements get() sent for the relations along path
RoundTrips(path) ==
    Cardinality({i \in DOMAIN loadLog : loadLog[i].path \in Prefixes(path)})

\* C8: get() loads an eager-loading path of depth d, for any number of
\* roots, in at most d batched round trips, whether or not a segment of the
\* path carries a constraint callback or a column list.
C8_RoundTripsAtMostDepth ==
    fetched =>
        \A path \in DOMAIN relationPathOptions : RoundTrips(path) <= Len(path)

-----------------------------------------------------------------------------
(* Serialization.                                                          *)

\* C9: in the serialized output of an entity every relation declared on its
\* type is a key (one the caller did not exclude): a list for a to-many
\* relation, null or the related object for a to-one relation, whatever
\* other relations are loaded or named in the inclusion tree.
C9_DeclaredRelationsAreKeys ==
    \A i \in DOMAIN sOut :
        (sOut[i].kind = "object" /\ sOut[i].withRelations) =>
            \A rel \in DOMAIN Declared \ sOut[i].exclude :
                /\ rel \in DOMAIN sOut[i].rels
                /\ sOut[i].rels[rel] \in
                     (IF IsToOne(Declared[rel]) THEN {"null", "object"} ELSE {"list"})

HasRelated(ent, other) ==
    \E i \in DOMAIN relationshipsLoaded[ent] :
        relationshipsLoaded[ent][i] = [rel |-> "related", val |-> OneRel(other)]

\* A.related = B and B.related = A, both loaded
Cycle == HasRelated("A", "B") /\ HasRelated("B", "A")

\* every occurrence of an entity after its first is the circular marker
LaterOccurrencesMarked ==
    \A i, j \in DOMAIN sOut :
        (i < j /\ sOut[i].ent = sOut[j].ent) => sOut[j].kind = "[Circular]"

\* C10: serializing a graph with a reference cycle terminates, and an
\* entity that was already visited is emitted as the circular-reference
\* marker, not recursed into.
C10_CycleTerminatesMarked ==
    /\ (sPc = "run") ~> (sPc = "done")
    /\ [](LaterOccurrencesMarked)

\* the cycle was serialized from A: A, its related B, and A again as marker
C10_CycleSerialized ==
    /\ sPc = "done"
    /\ Cycle
    /\ \E i \in DOMAIN sOut :
          /\ sOut[i].path = <<"related", "related">>
          /\ sOut[i].ent = "A"
          /\ sOut[i].kind = "[Circular]"
    /\ \E i \in DOMAIN sOut :
          sOut[i].path = <<"related">> /\ sOut[i].ent = "B" /\ sOut[i].kind = "object"

-----------------------------------------------------------------------------
(* Many-to-many pivot management.                                          *)

\* the keys of a set or list of key values, whatever type each is written in
KeyIdsOf(ks) == {k.n : k \in ks}
ListIds(ks) == {ks[i].n : i \in DOMAIN ks}

IsSync == pivotCall.op = "sync" /\ ~pivotCall.failed
IsToggle == pivotCall.op = "toggle"

C12_SyncReportsDifference ==
    (IsSync /\ pivotCall.detaching) =>
        /\ KeyIdsOf(pivotCall.attached) = ListIds(pivotCall.keys) \ KeyIdsOf(pivotCall.before)
        /\ KeyIdsOf(pivotCall.detached) = KeyIdsOf(pivotCall.before) \ ListIds(pivotCall.keys)
        /\ KeyIdsOf(pivotCall.updated) \subseteq
               ListIds(pivotCall.keys) \cap KeyIdsOf(pivotCall.before)

-----------------------------------------------------------------------------
(* Has-conditions: aggregates and unknown relations.                       *)

IsAggregate == hasCall.op \in Aggregates

\* the has-conditions whose relation has a descriptor on the entity type
KnownConditions == SelectSeq(hasConditions, LAMBDA c : c.relation \in Relationships)

\* C14: with no limit/offset set, an aggregate on a builder that carries
\* has-conditions is computed over exactly the rows get() on the same
\* builder returns, so count() equals the length of get().
C14_AggregateOverGetRows ==
    (IsAggregate /\ limitValue = 0) =>
        hasCall.rows = ExecuteGet(dbType, hasConditions, limitValue, offsetValue)

\* C15: a has-condition that names a relation without descriptor contributes
\* nothing: get() returns what the same builder returns without that
\* condition, on both backends.
C15_UnknownRelationSkipped ==
    hasCall.op = "get" =>
        hasCall.rows = ExecuteGet(dbType, KnownConditions, limitValue, offsetValue)

-----------------------------------------------------------------------------
(* Eager loading of a relation the entity type does not declare.           *)

\* C16: with(name) followed by get(), where name has no descriptor on the
\* entity type, fails that load with an unknown-relation error surfaced to
\* the caller instead of returning entities without the relation.
C16_UnknownRelationFails ==
    (fetched /\ nRoots > 0 /\ \E relation \in DOMAIN withRelations :
                                  relation \notin RootRelationships) =>
        loadOutcome.thrown = "unknown relation"

-----------------------------------------------------------------------------
(* Accessors, mutators and the memo of reads.                              *)

\* the fields the last write stored a value for
WrittenFields ==
    IF lastCall.op \in {"construct", "hydrate", "fill", "refresh"} THEN DOMAIN lastCall.input
    ELSE IF lastCall.op \in {"setAttribute", "assign"} THEN {lastCall.key}
    ELSE {}

\* C17: a synchronous read of a field whose accessor is asynchronous is a
\* no-op: it returns no unresolved computation and leaves the memo as it was,
\* so that a later asynchronous read still evaluates the accessor.
C17_SyncReadOfAsyncIsNoOp ==
    (readCall.op = "getAttribute" /\ IsAsyncAccessor(readCall.key)) =>
        /\ readCall.returned # PromiseV
        /\ attributeCache = readCall.cacheBefore
        /\ readCall.key \notin DOMAIN readCall.cacheBefore =>
             LET later == GetAttributeAwait(attributes, attributeCache, readCall.key)
             IN /\ later.evaluated
                /\ later.returned = Acc(GetAttr(attributes, readCall.key))

\* C18: once a write (setAttribute, property assignment, fill, hydrate,
\* refresh) has replaced the stored value of a field, the next read of the
\* field evaluates the accessor against the new stored value: no memo of an
\* earlier value is returned.
C18_MemoDroppedOnWrite ==
    readCall = NoRead =>
        \A f \in WrittenFields :
            /\ AccessorKind(f) \in {"method", "registeredSync"} =>
                 GetAttributeSync(attributes, attributeCache, f).returned
                     = Acc(GetAttr(attributes, f))
            /\ AccessorKind(f) # "none" =>
                 GetAttributeAwait(attributes, attributeCache, f).returned
                     = Acc(GetAttr(attributes, f))

\* C19: every write path stores the mutator's output for a field that has a
\* mutator, never the raw input: the constructor, fill() and property
\* assignment.
C19_MutatorOnEveryWritePath ==
    /\ lastCall.op \in {"construct", "fill"} =>
         \A f \in DOMAIN lastCall.input \cap DOMAIN Mutators :
             GetAttr(attributes, f) = Mut(lastCall.input[f])
    /\ (lastCall.op = "assign" /\ lastCall.key \in DOMAIN Mutators) =>
         GetAttr(attributes, lastCall.key) = Mut(lastCall.value)

-----------------------------------------------------------------------------
(* The soft-delete injection happens once.                                 *)

\* the clauses on deleted_at of a list, those of its nested groups included;
\* with injectedOnly, only the predicate the builder injects
RECURSIVE CountDeletedAt(_, _)
CountDeletedAt(cs, injectedOnly) ==
    IF cs = <<>> THEN 0
    ELSE (IF Head(cs).operator = "nested" /\ Head(cs).value.t = "clauses"
            THEN CountDeletedAt(Head(cs).value.cs, injectedOnly)
          ELSE IF injectedOnly /\ Head(cs) = DeletedAtIsNull THEN 1
          ELSE IF ~injectedOnly /\ Head(cs).column = "deleted_at" THEN 1
          ELSE 0)
         + CountDeletedAt(Tail(cs), injectedOnly)

\* the automatically injected predicates the builder's clause list holds
InjectedPredicates == CountDeletedAt(whereClauses, TRUE)

\* the tests of deleted_at in the statement compiled from the clause list:
\* both compilers write one test per clause
DeletedAtTests == CountDeletedAt(whereClauses, FALSE)

\* C20: whatever terminal calls were made on one builder of a soft-deleting
\* type, its clause list holds at most one automatically injected
\* not-deleted predicate, and the statement compiled from it tests
\* deleted_at at most once.
C20_InjectedOnce ==
    /\ InjectedPredicates <= 1
    /\ lastTerminal \in {"get", "first", "count"} => DeletedAtTests <= 1

-----------------------------------------------------------------------------
(* Eager loading of a relation tree: the order of the loads.               *)

\* C21: get() issues its loader batches strictly by tree depth: no relation
\* at depth k+1 is loaded before a relation at depth k, whatever the shape
\* of the tree, trees with several top-level branches of different depth
\* included.
C21_LoadsByDepth ==
    treeFetched =>
        \A i, j \in DOMAIN treeLog :
            i < j => Len(treeLog[i]) <= Len(treeLog[j])

-----------------------------------------------------------------------------
(* Serialization: the depth counter.                                       *)

\* C22: the depth counter of the serializer goes up by exactly one per
\* relation hop: an entity reached through k loaded-relation hops from the
\* root (and not met before) is serialized in full when k is below the
\* maximum depth and is the depth-limit marker when k is at or above it.
C22_DepthPerHop ==
    \A i \in DOMAIN sOut :
        sOut[i].kind # "[Circular]" =>
            (sOut[i].kind = "object" <=> Len(sOut[i].path) < sOut[i].maxDepth)

-----------------------------------------------------------------------------
(* Nested where-groups on SQL.                                             *)

IsGroup(w) == w.operator = "nested" /\ w.value.t = "clauses"

\* C23: a nested where-group compiles to SQL as its clauses would at top
\* level, wrapped in parentheses: IN, NOT IN, BETWEEN, NOT BETWEEN, null
\* tests and inner groups give the same predicate text and the same
\* positional parameters, in the same order, inside a group as outside.
C23_GroupCompilesAsTopLevel ==
    (dbType = "mysql" /\ lastTerminal # "none") =>
        \A i \in DOMAIN whereClauses :
            IsGroup(whereClauses[i]) =>
                BuildNestedWhere(whereClauses[i].value.cs)
                  = BuildWhereSql(whereClauses[i].value.cs)

-----------------------------------------------------------------------------
(* whereHas on the document store.                                         *)

\* C24: on the document store whereHas(relation, constraint, comparator,
\* threshold) keeps exactly the candidates whose count of related documents
\* matching the constraint satisfies the comparator, the has-conditions
\* nested in the constraint being applied at every nesting depth: the
\* parents the SQL compilation of the same builder selects.
C24_NestedHasAsSQL ==
    (dbType = "mongodb" /\ nestedCall.op = "get") =>
        nestedCall.rows = {i \in DOMAIN chains : KeepsSQL(chains[i], nestedHas)}

-----------------------------------------------------------------------------
(* Identifier coercion on the document store.                              *)

\* C25: on the document store save() stores an id-like field value in the
\* representation where(field, value) uses in its filter: an entity saved
\* with the value v is found by a later where(field, v).get(), for 24-hex
\* strings, numbers and numeric strings alike.
C25_SavedIsFound ==
    idCall.op = "get" =>
        \A d \in idDocs : d.input = idCall.value => d \in idCall.rows

-----------------------------------------------------------------------------
(* Loading relations onto an entity.                                       *)

\* C26: loading relations onto an entity changes only its map of loaded
\* relations: the attribute store and the dirty-tracking snapshot of the
\* entity are the same after load() as before it.
C26_LoadLeavesAttributes ==
    lastCall.op = "load" =>
        /\ attributes = lastCall.before.attributes
        /\ original = lastCall.before.original

-----------------------------------------------------------------------------
(* Asynchronous accessors and concurrent writes.                           *)

\* C27: when setAttribute(f, v) runs while an asynchronous accessor
\* evaluation for f is suspended, then once both have completed every read
\* of f reflects v: the evaluation does not put a result computed from the
\* overwritten value back into the memo.
C27_ReadAfterRaceReflectsWrite ==
    (/\ pending.state = "done"
     /\ lastCall.op = "setAttribute"
     /\ lastCall.key = pending.key) =>
        GetAttributeAwait(attributes, attributeCache, pending.key).returned
          = Acc(lastCall.value)

-----------------------------------------------------------------------------
(* Entities returned by reads.                                             *)

\* C28: every entity a read returns, from a builder's get/first/find or
\* from a relation's getResults (many-to-many included), has existsFlag
\* true, so that save() after a modification updates the stored row and
\* does not insert a new one.
C28_ReadEntitiesExist ==
    lastCall.op \in {"hydrate", "getResults"} => existsFlag

-----------------------------------------------------------------------------
(* Eager loading and soft deletes.                                         *)

\* C29: eager-loading a relation whose related type declares soft deletes,
\* in default mode and without a constraint callback, attaches no
\* soft-deleted related entity to any parent, and attaches the same related
\* entities on the SQL store and on the document store.
C29_EagerLoadHidesTrashed ==
    (/\ fetched
     /\ RelatedSoftDeletes
     /\ "a" \in DOMAIN withRelations
     /\ ~PathOptions(<<"a">>).constraints) =>
        \A r \in DOMAIN loadedA :
            /\ \A i \in loadedA[r] : aRows[i].deleted_at = NULL
            /\ loadedA[r] = RelationA(kindA, RowsOfA("mysql", 1..nRoots, NoOptions), r)

-----------------------------------------------------------------------------
(* The trashed-scope mode selected last.                                   *)

\* withTrashed() is the mode call made last on the builder
WithTrashedIsLast == includeTrashed /\ ~onlyTrashedFlag

NoGroups == \A i \in DOMAIN whereClauses : ~IsGroup(whereClauses[i])

\* C30: the trashed-scope mode that governs a terminal call is the one
\* selected last on the builder: after onlyTrashed() then withTrashed(), and
\* after a terminal call then withTrashed(), the next fetch returns the
\* soft-deleted and the other entities that match the caller's clauses.
C30_LastModeGoverns ==
    (lastTerminal = "get" /\ WithTrashedIsLast /\ NoGroups) => result = BaseSelect

====
